---- MODULE Spec2Model ----
(***************************************************************************)
(* Payment orchestration service (FastAPI + Midtrans + PostgreSQL).        *)
(*                                                                         *)
(* State: the payments table, the wall clock (UTC) and the offset of the   *)
(* server's local time from it, and a log of the last                      *)
(* request handled (operation, gateway calls made, outcome); for a service *)
(* run as several processes on the one database, the request each process  *)
(* is in the middle of, and the refund calls the gateway has received.     *)
(* One action                                                              *)
(* per request handler; every handler body runs without suspending (the    *)
(* storage and gateway adapters are blocking calls inside "async def"), so *)
(* a handler is one step.  What the gateway holds for an order is an input *)
(* of the handler in Spec (the gateway is free to hold anything), and is   *)
(* state in SpecGateway, where the gateway's reports are numbered and its  *)
(* notifications may arrive late.                                          *)
(***************************************************************************)
EXTENDS Integers, Sequences, FiniteSets, TLC

VARIABLES db, now, last, gw, applied, tz, workers, refunds

vars == <<db, now, last, gw, applied, tz, workers, refunds>>

-----------------------------------------------------------------------------
(* Bounds of the model *)

\* number of distinct caller-assigned order ids
NOrders == 1
\* last value of the wall clock
MaxClock == 1
\* number of server processes that share the database
NWorkers == 2

-----------------------------------------------------------------------------
(* Values *)

\* Python's None (also: a key absent from a dict, as dict.get returns it)
None == "None"

\* domain/models.py PaymentStatus
PENDING == "pending"
PROCESSING == "processing"
SUCCESS == "success"
FAILED == "failed"
CANCELED == "canceled"
REFUNDED == "refunded"
EXPIRED == "expired"

PaymentStatus == {PENDING, PROCESSING, SUCCESS, FAILED, CANCELED, REFUNDED, EXPIRED}

\* domain/models.py PaymentMethod (the members the requests of the model use)
PaymentMethod == {"qris"}

OrderName(i) == IF i = 1 THEN "ORD-1" ELSE IF i = 2 THEN "ORD-2" ELSE "ORD-3"

\* the order ids callers use
Orders == {OrderName(i) : i \in 1..NOrders}

\* request amounts that pass validation, and all request amounts
Amounts == {100, 200}
RequestAmounts == Amounts \cup {0}

\* midtrans_adapter.py:164  id=f"payment-{payment_request.order_id}"
PaymentId(order_id) == "payment-" \o order_id

PaymentIds == {PaymentId(o) : o \in Orders}

\* Optional[Dict] metadata: None, or a function from the keys present
MetaNone == [isNone |-> TRUE]
MetaEmpty == [k \in {} |-> None]

\* Python truthiness of an Optional[str]
Truthy(v) == v # None /\ v # ""

\* dict.get(key) on a metadata dict
MetaGet(m, k) == IF k \in DOMAIN m THEN m[k] ELSE None

\* `if payment.metadata:` -- neither None nor the empty dict
MetaTruthy(m) == m # MetaNone /\ DOMAIN m # {}

-----------------------------------------------------------------------------
(* Gateway (Midtrans) as the adapter sees it *)

\* what the status endpoint reports for an order: a (transaction_status,
\* fraud_status) pair; NoTxn stands for a call that brought no report (no
\* connection, a timeout, a 404 or another non-200 answer)
NoTxn == <<"404", None>>

Reports ==
  { <<"pending", None>>, <<"settlement", "accept">>, <<"capture", "deny">>,
    <<"refund", None>> }

\* the mapping of the first get_payment_status of the class, which the
\* second definition replaces: no entry for partial_refund
AdapterStatusMappingFirst(transaction_status, fraud_status) ==
  IF fraud_status = "deny" THEN FAILED
  ELSE CASE transaction_status = "capture" -> SUCCESS
         [] transaction_status = "settlement" -> SUCCESS
         [] transaction_status = "pending" -> PENDING
         [] transaction_status = "deny" -> FAILED
         [] transaction_status = "cancel" -> CANCELED
         [] transaction_status = "expire" -> EXPIRED
         [] transaction_status = "refund" -> REFUNDED
         [] OTHER -> PENDING

\* the status mapping of MidtransAdapter.get_payment_status (the definition
\* at the end of the class is the one Python keeps)
AdapterStatusMapping(transaction_status, fraud_status) ==
  IF fraud_status = "deny" THEN FAILED
  ELSE CASE transaction_status = "capture" -> SUCCESS
         [] transaction_status = "settlement" -> SUCCESS
         [] transaction_status = "pending" -> PENDING
         [] transaction_status = "deny" -> FAILED
         [] transaction_status = "cancel" -> CANCELED
         [] transaction_status = "expire" -> EXPIRED
         [] transaction_status = "refund" -> REFUNDED
         [] transaction_status = "partial_refund" -> REFUNDED
         [] OTHER -> PENDING

\* MidtransAdapter.get_payment_status: up = the HTTP call returned a
\* well-formed response; report = what the gateway holds for the order.
\* Any exception, a 404 and any other non-200 all give PENDING.
AdapterGetPaymentStatus(up, report) ==
  IF up /\ report # NoTxn
    THEN AdapterStatusMapping(report[1], report[2])
    ELSE PENDING

-----------------------------------------------------------------------------
(* Storage adapter (adapters/db.py) over a table d: a set of rows *)

\* datetime.utcnow() in the storage adapter; datetime.now() in the gateway
\* adapter is the server's local time, tz ahead of UTC
UtcNow == now
AdapterNow == now + tz

RowsById(d, payment_id) == {r \in d : r.payment_id = payment_id}

\* _payment_record_to_response
PaymentRecordToResponse(record) ==
  LET \* the columns that are set, each under its key
      m1 == IF Truthy(record.token) THEN [token |-> record.token] ELSE MetaEmpty
      m2 == IF Truthy(record.redirect_url)
              THEN [redirect_url |-> record.redirect_url] ELSE MetaEmpty
      m3 == IF Truthy(record.qr_code_url)
              THEN [qr_code_url |-> record.qr_code_url] ELSE MetaEmpty
      m4 == IF Truthy(record.virtual_account_number)
              THEN [virtual_account_number |-> record.virtual_account_number] ELSE MetaEmpty
      m5 == IF Truthy(record.bank_code) THEN [bank_code |-> record.bank_code] ELSE MetaEmpty
      \* metadata.update(json.loads(additional_data)): the stored map wins
      add == IF record.additional_data = MetaNone THEN MetaEmpty ELSE record.additional_data
      metadata == add @@ m1 @@ m2 @@ m3 @@ m4 @@ m5
  IN [ id |-> record.payment_id,
       order_id |-> record.order_id,
       transaction_id |-> record.payment_id,
       amount |-> record.amount,
       status |-> record.status,
       payment_method |-> record.payment_method,
       payment_url |-> record.payment_url,
       created_at |-> record.created_at,
       updated_at |-> record.updated_at,
       metadata |-> IF DOMAIN metadata # {} THEN metadata ELSE MetaNone ]

NoPayment == [id |-> None]

\* DatabaseAdapter.get_payment
StorageGetPayment(d, payment_id) ==
  LET rows == RowsById(d, payment_id)
  IN IF rows # {}
       THEN PaymentRecordToResponse(CHOOSE r \in rows : TRUE)
       ELSE NoPayment

\* the metadata columns written by both branches of save_payment
MetadataColumns(payment, old) ==
  IF MetaTruthy(payment.metadata)
    THEN [ token |-> MetaGet(payment.metadata, "token"),
           redirect_url |-> MetaGet(payment.metadata, "redirect_url"),
           qr_code_url |-> MetaGet(payment.metadata, "qr_code_url"),
           virtual_account_number |-> MetaGet(payment.metadata, "virtual_account_number"),
           bank_code |-> MetaGet(payment.metadata, "bank_code"),
           additional_data |-> payment.metadata ]
    ELSE old

NoColumns ==
  [ token |-> None, redirect_url |-> None, qr_code_url |-> None,
    virtual_account_number |-> None, bank_code |-> None, additional_data |-> MetaNone ]

ColumnsOf(r) ==
  [ token |-> r.token, redirect_url |-> r.redirect_url, qr_code_url |-> r.qr_code_url,
    virtual_account_number |-> r.virtual_account_number, bank_code |-> r.bank_code,
    additional_data |-> r.additional_data ]

\* DatabaseAdapter.save_payment: update the row with this payment_id, or insert
SavePayment(d, payment) ==
  LET existing == RowsById(d, payment.id)
  IN IF existing # {}
       THEN LET e == CHOOSE r \in existing : TRUE
                c == MetadataColumns(payment, ColumnsOf(e))
            IN (d \ {e}) \cup
               {[ e EXCEPT !.status = payment.status,
                           !.amount = payment.amount,
                           !.payment_method = payment.payment_method,
                           !.transaction_time = payment.created_at,
                           !.payment_url = payment.payment_url,
                           !.updated_at = UtcNow,
                           !.token = c.token,
                           !.redirect_url = c.redirect_url,
                           !.qr_code_url = c.qr_code_url,
                           !.virtual_account_number = c.virtual_account_number,
                           !.bank_code = c.bank_code,
                           !.additional_data = c.additional_data ]}
       ELSE LET c == MetadataColumns(payment, NoColumns)
            IN d \cup
               {[ payment_id |-> payment.id,
                  order_id |-> payment.order_id,
                  status |-> payment.status,
                  amount |-> payment.amount,
                  payment_method |-> payment.payment_method,
                  transaction_time |-> payment.created_at,
                  payment_url |-> payment.payment_url,
                  token |-> c.token,
                  redirect_url |-> c.redirect_url,
                  qr_code_url |-> c.qr_code_url,
                  virtual_account_number |-> c.virtual_account_number,
                  bank_code |-> c.bank_code,
                  additional_data |-> c.additional_data,
                  created_at |-> payment.created_at,
                  updated_at |-> payment.updated_at ]}

\* update_payment_status without its filter on payment_id
UpdatePaymentStatusEveryRow(d, payment_id, status) ==
  {[r EXCEPT !.status = status, !.updated_at = UtcNow] : r \in d}

\* DatabaseAdapter.update_payment_status on a row that exists (the caller
\* handles the ValueError raised when none does)
UpdatePaymentStatus(d, payment_id, status) ==
  {IF r.payment_id = payment_id
     THEN [r EXCEPT !.status = status, !.updated_at = UtcNow]
     ELSE r : r \in d}

Exists(d, payment_id) == RowsById(d, payment_id) # {}

\* sorted(rows, key=created_at, reverse=True); rows with equal created_at
\* come in an order the database picks
RECURSIVE SortDesc(_)
SortDesc(rows) ==
  IF rows = {} THEN <<>>
  ELSE LET top == CHOOSE r \in rows : \A q \in rows : q.created_at <= r.created_at
       IN <<top>> \o SortDesc(rows \ {top})

\* DatabaseAdapter.get_payments_by_order
GetPaymentsByOrder(d, order_id) ==
  LET records == SortDesc({r \in d : r.order_id = order_id})
  IN [i \in 1..Len(records) |-> PaymentRecordToResponse(records[i])]

-----------------------------------------------------------------------------
(* Reconciliation service (domain/services.py).  Every operation returns    *)
(* the table it leaves, what it returns or raises, and the gateway calls it *)
(* made, in order.                                                          *)

\* one HTTP call to the gateway: which endpoint, for which reference, and
\* whether it came back with a usable response
\* report: what the gateway held for the reference when a status call was made
GatewayCall(endpoint, ref, ok, report) ==
  [endpoint |-> endpoint, ref |-> ref, ok |-> ok, report |-> report]

NoError == "ok"

\* get_payment that reads the gateway but does not store what it reports
ServiceGetPaymentNoPersist(d, payment_id, up, g) ==
  LET payment == StorageGetPayment(d, payment_id)
  IN IF payment = NoPayment
       THEN [db |-> d, ret |-> NoPayment, calls |-> <<>>]
       ELSE IF payment.status \in {PENDING, PROCESSING}
         THEN [db |-> d, ret |-> payment,
               calls |-> <<GatewayCall("status", payment.order_id, up, g[payment.order_id])>>]
         ELSE [db |-> d, ret |-> payment, calls |-> <<>>]

\* get_payment that refreshes whatever the stored status is
ServiceGetPaymentAlwaysRefresh(d, payment_id, up, g) ==
  LET payment == StorageGetPayment(d, payment_id)
  IN IF payment = NoPayment
       THEN [db |-> d, ret |-> NoPayment, calls |-> <<>>]
       ELSE LET latest_status == AdapterGetPaymentStatus(up, g[payment.order_id])
                calls == <<GatewayCall("status", payment.order_id, up, g[payment.order_id])>>
            IN IF latest_status # payment.status
                 THEN LET d2 == UpdatePaymentStatus(d, payment.id, latest_status)
                      IN [db |-> d2, ret |-> StorageGetPayment(d2, payment.id), calls |-> calls]
                 ELSE [db |-> d, ret |-> payment, calls |-> calls]

\* PaymentService.get_payment: read, refresh from the gateway while the
\* stored status is PENDING or PROCESSING, return the (re-read) payment
ServiceGetPayment(d, payment_id, up, g) ==
  LET payment == StorageGetPayment(d, payment_id)
  IN IF payment = NoPayment
       THEN [db |-> d, ret |-> NoPayment, calls |-> <<>>]
       ELSE IF payment.status \in {PENDING, PROCESSING}
         THEN LET latest_status == AdapterGetPaymentStatus(up, g[payment.order_id])
                  calls == <<GatewayCall("status", payment.order_id, up, g[payment.order_id])>>
              IN IF latest_status # payment.status
                   THEN LET d2 == UpdatePaymentStatus(d, payment.id, latest_status)
                        IN [db |-> d2, ret |-> StorageGetPayment(d2, payment.id), calls |-> calls]
                   ELSE [db |-> d, ret |-> payment, calls |-> calls]
         ELSE [db |-> d, ret |-> payment, calls |-> <<>>]

\* PaymentService.get_payment_status: always ask the gateway, store the
\* answer when it differs, return the status
ServiceGetPaymentStatus(d, payment_id, up, g) ==
  LET payment == StorageGetPayment(d, payment_id)
  IN IF payment = NoPayment
       THEN [db |-> d, ret |-> None, err |-> "ValueError", calls |-> <<>>]
       ELSE LET latest_status == AdapterGetPaymentStatus(up, g[payment.order_id])
                calls == <<GatewayCall("status", payment.order_id, up, g[payment.order_id])>>
            IN IF latest_status # payment.status
                 THEN [db |-> UpdatePaymentStatus(d, payment_id, latest_status),
                       ret |-> latest_status, err |-> NoError, calls |-> calls]
                 ELSE [db |-> d, ret |-> payment.status, err |-> NoError, calls |-> calls]

\* the Snap API's answers to a create-transaction call
SnapOutcomes == {"201", "201-no-redirect", "400", "timeout"}

SnapResult(snap) ==
  IF snap = "201"
    THEN [token |-> "snap-token", redirect_url |-> "https://snap/redirect"]
    ELSE [token |-> "snap-token"]

\* MidtransAdapter.create_payment: validation, then the POST; any failure
\* raises ValueError
AdapterCreatePayment(order_id, amount, payment_method, snap) ==
  IF order_id = "" \/ amount <= 0
    THEN [err |-> "ValueError", ret |-> NoPayment, calls |-> <<>>]
  ELSE IF snap \notin {"201", "201-no-redirect"}
    THEN [err |-> "ValueError", ret |-> NoPayment,
          calls |-> <<GatewayCall("snap", order_id, FALSE, NoTxn)>>]
  ELSE LET result == SnapResult(snap)
       IN [err |-> NoError,
           ret |-> [ id |-> PaymentId(order_id),
                     order_id |-> order_id,
                     transaction_id |-> order_id,
                     amount |-> amount,
                     status |-> PENDING,
                     payment_method |-> payment_method,
                     payment_url |-> MetaGet(result, "redirect_url"),
                     created_at |-> AdapterNow,
                     updated_at |-> AdapterNow,
                     metadata |-> [ token |-> MetaGet(result, "token"),
                                    redirect_url |-> MetaGet(result, "redirect_url") ] ],
           calls |-> <<GatewayCall("snap", order_id, TRUE, NoTxn)>>]

\* create_payment that stores the payment before it hears from the gateway
ServiceCreatePaymentSaveFirst(d, order_id, amount, payment_method, snap, dbok) ==
  LET provisional == AdapterCreatePayment(order_id, amount, payment_method, "201")
      payment_response == AdapterCreatePayment(order_id, amount, payment_method, snap)
      d1 == IF provisional.err = NoError /\ dbok THEN SavePayment(d, provisional.ret) ELSE d
  IN IF payment_response.err # NoError \/ ~dbok
       THEN [db |-> d1, ret |-> NoPayment, err |-> "ValueError", calls |-> payment_response.calls]
       ELSE [db |-> SavePayment(d, payment_response.ret), ret |-> payment_response.ret,
             err |-> NoError, calls |-> payment_response.calls]

\* create_payment that returns the gateway's payment without saving it
ServiceCreatePaymentNoSave(d, order_id, amount, payment_method, snap, dbok) ==
  LET payment_response == AdapterCreatePayment(order_id, amount, payment_method, snap)
  IN IF payment_response.err # NoError \/ ~dbok
       THEN [db |-> d, ret |-> NoPayment, err |-> "ValueError", calls |-> payment_response.calls]
       ELSE [db |-> d, ret |-> payment_response.ret, err |-> NoError,
             calls |-> payment_response.calls]

\* create_payment that returns the gateway's payment although its save failed
ServiceCreatePaymentIgnoreSaveError(d, order_id, amount, payment_method, snap, dbok) ==
  LET payment_response == AdapterCreatePayment(order_id, amount, payment_method, snap)
  IN IF payment_response.err # NoError
       THEN [db |-> d, ret |-> NoPayment, err |-> "ValueError", calls |-> payment_response.calls]
     ELSE IF ~dbok
       THEN [db |-> d, ret |-> payment_response.ret, err |-> NoError,
             calls |-> payment_response.calls]
     ELSE [db |-> SavePayment(d, payment_response.ret), ret |-> payment_response.ret,
           err |-> NoError, calls |-> payment_response.calls]

\* PaymentService.create_payment: gateway first, then save; every exception
\* is re-raised as ValueError.  dbok = the save's commit went through.
ServiceCreatePayment(d, order_id, amount, payment_method, snap, dbok) ==
  LET payment_response == AdapterCreatePayment(order_id, amount, payment_method, snap)
  IN IF payment_response.err # NoError
       THEN [db |-> d, ret |-> NoPayment, err |-> "ValueError", calls |-> payment_response.calls]
     ELSE IF ~dbok
       THEN [db |-> d, ret |-> NoPayment, err |-> "ValueError", calls |-> payment_response.calls]
     ELSE [db |-> SavePayment(d, payment_response.ret), ret |-> payment_response.ret,
           err |-> NoError, calls |-> payment_response.calls]

\* how f"{payment.status}" renders a PaymentStatus member: its value up to
\* Python 3.10, the member's name from Python 3.11 on
EnumFormats == {"value", "name"}

StatusName(status) ==
  CASE status = PENDING -> "PaymentStatus.PENDING"
    [] status = PROCESSING -> "PaymentStatus.PROCESSING"
    [] status = SUCCESS -> "PaymentStatus.SUCCESS"
    [] status = FAILED -> "PaymentStatus.FAILED"
    [] status = CANCELED -> "PaymentStatus.CANCELED"
    [] status = REFUNDED -> "PaymentStatus.REFUNDED"
    [] status = EXPIRED -> "PaymentStatus.EXPIRED"

FormatStatus(status, fmt) == IF fmt = "value" THEN status ELSE StatusName(status)

\* float() on the amount strings of the model
Float(x) ==
  CASE x = "100.00" -> 100
    [] x = "200.00" -> 200
    [] x = "50" -> 50
    [] OTHER -> 0

\* the gateway's answers to a cancel call: a 2xx response with a body, or
\* a call that raised (no connection, an error status at raise_for_status)
CancelBodies ==
  { [http |-> "200", order_id |-> "<absent>", gross_amount |-> "100.00",
     transaction_status |-> "cancel"],
    [http |-> "200", order_id |-> "<absent>", gross_amount |-> "<absent>",
     transaction_status |-> "settlement"] }

CancelFailed ==
  [http |-> "error", order_id |-> "<absent>", gross_amount |-> "<absent>",
   transaction_status |-> "<absent>"]

CancelAnswers == CancelBodies \cup {CancelFailed}

\* MidtransAdapter.cancel_payment: the POST, then a PaymentResponse built
\* from the response body
AdapterCancelPayment(transaction_id, answer) ==
  IF answer.http # "200"
    THEN [err |-> "ValueError: Failed to cancel payment", ret |-> NoPayment,
          calls |-> <<GatewayCall("cancel", transaction_id, FALSE, NoTxn)>>]
    ELSE [err |-> NoError,
          ret |-> [ id |-> PaymentId(transaction_id),
                    order_id |-> IF answer.order_id = "<absent>"
                                   THEN transaction_id ELSE answer.order_id,
                    transaction_id |-> transaction_id,
                    amount |-> Float(answer.gross_amount),
                    status |-> CANCELED,
                    payment_method |-> "credit_card",
                    payment_url |-> None,
                    created_at |-> AdapterNow,
                    updated_at |-> AdapterNow,
                    metadata |-> answer ],
          calls |-> <<GatewayCall("cancel", transaction_id, TRUE, NoTxn)>>]

\* cancel_payment without its status check
ServiceCancelPaymentAnyStatus(d, payment_id, answer, fmt) ==
  LET payment == StorageGetPayment(d, payment_id)
  IN IF payment = NoPayment
       THEN [db |-> d, ret |-> NoPayment, err |-> "ValueError: not found", calls |-> <<>>]
     ELSE LET updated_payment == AdapterCancelPayment(payment.order_id, answer)
          IN IF updated_payment.err # NoError
               THEN [db |-> d, ret |-> NoPayment, err |-> updated_payment.err,
                     calls |-> updated_payment.calls]
               ELSE LET d2 == UpdatePaymentStatus(d, payment_id, CANCELED)
                    IN [db |-> d2, ret |-> StorageGetPayment(d2, payment_id),
                        err |-> NoError, calls |-> updated_payment.calls]

\* cancel_payment storing the PaymentResponse the adapter built from the
\* gateway's response
ServiceCancelPaymentSaveResponse(d, payment_id, answer, fmt) ==
  LET payment == StorageGetPayment(d, payment_id)
  IN IF payment = NoPayment
       THEN [db |-> d, ret |-> NoPayment, err |-> "ValueError: not found", calls |-> <<>>]
     ELSE IF payment.status \notin {PENDING, PROCESSING}
       THEN [db |-> d, ret |-> NoPayment,
             err |-> "ValueError: Cannot cancel payment with status: "
                       \o FormatStatus(payment.status, fmt),
             calls |-> <<>>]
     ELSE LET updated_payment == AdapterCancelPayment(payment.order_id, answer)
          IN IF updated_payment.err # NoError
               THEN [db |-> d, ret |-> NoPayment, err |-> updated_payment.err,
                     calls |-> updated_payment.calls]
               ELSE LET d2 == SavePayment(d, updated_payment.ret)
                    IN [db |-> d2, ret |-> StorageGetPayment(d2, payment_id),
                        err |-> NoError, calls |-> updated_payment.calls]

\* cancel_payment writing CANCELED before it calls the gateway
ServiceCancelPaymentWriteFirst(d, payment_id, answer, fmt) ==
  LET payment == StorageGetPayment(d, payment_id)
  IN IF payment = NoPayment
       THEN [db |-> d, ret |-> NoPayment, err |-> "ValueError: not found", calls |-> <<>>]
     ELSE IF payment.status \notin {PENDING, PROCESSING}
       THEN [db |-> d, ret |-> NoPayment,
             err |-> "ValueError: Cannot cancel payment with status: "
                       \o FormatStatus(payment.status, fmt),
             calls |-> <<>>]
     ELSE LET d2 == UpdatePaymentStatus(d, payment_id, CANCELED)
              updated_payment == AdapterCancelPayment(payment.order_id, answer)
          IN IF updated_payment.err # NoError
               THEN [db |-> d2, ret |-> NoPayment, err |-> updated_payment.err,
                     calls |-> updated_payment.calls]
               ELSE [db |-> d2, ret |-> StorageGetPayment(d2, payment_id),
                     err |-> NoError, calls |-> updated_payment.calls]

\* PaymentService.cancel_payment; fmt = how the running Python renders the
\* status in the error message
ServiceCancelPayment(d, payment_id, answer, fmt) ==
  LET payment == StorageGetPayment(d, payment_id)
  IN IF payment = NoPayment
       THEN [db |-> d, ret |-> NoPayment, err |-> "ValueError: not found", calls |-> <<>>]
     ELSE IF payment.status \notin {PENDING, PROCESSING}
       THEN [db |-> d, ret |-> NoPayment,
             err |-> "ValueError: Cannot cancel payment with status: "
                       \o FormatStatus(payment.status, fmt),
             calls |-> <<>>]
     ELSE LET updated_payment == AdapterCancelPayment(payment.order_id, answer)
          IN IF updated_payment.err # NoError
               THEN [db |-> d, ret |-> NoPayment, err |-> updated_payment.err,
                     calls |-> updated_payment.calls]
               ELSE LET d2 == UpdatePaymentStatus(d, payment_id, CANCELED)
                    IN [db |-> d2, ret |-> StorageGetPayment(d2, payment_id),
                        err |-> NoError, calls |-> updated_payment.calls]

\* MidtransAdapter.refund_payment's calls: without an amount it first reads
\* the transaction (statusok), then posts the refund (gwok)
RefundCalls(order_id, amount, statusok, gwok) ==
  IF amount = None
    THEN IF statusok
           THEN <<GatewayCall("status", order_id, TRUE, NoTxn),
                  GatewayCall("refund", order_id, gwok, NoTxn)>>
           ELSE <<GatewayCall("status", order_id, FALSE, NoTxn)>>
    ELSE <<GatewayCall("refund", order_id, gwok, NoTxn)>>

\* MidtransAdapter.refund_payment: the calls, then a PaymentResponse that
\* carries the refunded amount (the transaction's gross_amount when the
\* request names none)
AdapterRefundPayment(transaction_id, amount, statusok, gwok) ==
  LET calls == RefundCalls(transaction_id, amount, statusok, gwok)
  IN IF ~gwok \/ (amount = None /\ ~statusok)
       THEN [err |-> "ValueError: Failed to refund payment", ret |-> NoPayment, calls |-> calls]
       ELSE [err |-> NoError,
             ret |-> [ id |-> PaymentId(transaction_id),
                       order_id |-> transaction_id,
                       transaction_id |-> transaction_id,
                       amount |-> IF amount = None THEN Float("100.00") ELSE Float(amount),
                       status |-> REFUNDED,
                       payment_method |-> "credit_card",
                       payment_url |-> None,
                       created_at |-> AdapterNow,
                       updated_at |-> AdapterNow,
                       metadata |-> MetaEmpty ],
             calls |-> calls]

\* refund_payment storing the PaymentResponse the adapter built (its amount
\* is the refunded amount)
ServiceRefundPaymentSaveResponse(d, payment_id, amount, statusok, gwok, fmt) ==
  LET payment == StorageGetPayment(d, payment_id)
  IN IF payment = NoPayment
       THEN [db |-> d, ret |-> NoPayment, err |-> "ValueError: not found", calls |-> <<>>]
     ELSE IF payment.status # SUCCESS
       THEN [db |-> d, ret |-> NoPayment,
             err |-> "ValueError: Cannot refund payment with status: "
                       \o FormatStatus(payment.status, fmt),
             calls |-> <<>>]
     ELSE LET updated_payment == AdapterRefundPayment(payment.order_id, amount, statusok, gwok)
          IN IF updated_payment.err # NoError
               THEN [db |-> d, ret |-> NoPayment, err |-> updated_payment.err,
                     calls |-> updated_payment.calls]
               ELSE LET d2 == SavePayment(d, updated_payment.ret)
                    IN [db |-> d2, ret |-> StorageGetPayment(d2, payment_id),
                        err |-> NoError, calls |-> updated_payment.calls]

\* PaymentService.refund_payment
ServiceRefundPayment(d, payment_id, amount, statusok, gwok, fmt) ==
  LET payment == StorageGetPayment(d, payment_id)
  IN IF payment = NoPayment
       THEN [db |-> d, ret |-> NoPayment, err |-> "ValueError: not found", calls |-> <<>>]
     ELSE IF payment.status # SUCCESS
       THEN [db |-> d, ret |-> NoPayment,
             err |-> "ValueError: Cannot refund payment with status: "
                       \o FormatStatus(payment.status, fmt),
             calls |-> <<>>]
     ELSE LET updated_payment == AdapterRefundPayment(payment.order_id, amount, statusok, gwok)
          IN IF updated_payment.err # NoError
               THEN [db |-> d, ret |-> NoPayment, err |-> updated_payment.err,
                     calls |-> updated_payment.calls]
               ELSE LET d2 == UpdatePaymentStatus(d, payment_id, REFUNDED)
                    IN [db |-> d2, ret |-> StorageGetPayment(d2, payment_id),
                        err |-> NoError, calls |-> updated_payment.calls]

-----------------------------------------------------------------------------
(* Inbound notifications: adapters/webhook_handler.py and the adapter's and *)
(* the service's handle_notification.  A payload is a dict; a key that is   *)
(* not in it has the value Absent here.                                     *)

Absent == "<absent>"

\* dict.get(key): None for a key that is not there
Get(payload, key) == IF payload[key] = Absent THEN None ELSE payload[key]

\* dict.get(key, default)
GetOr(payload, key, default) == IF payload[key] = Absent THEN default ELSE payload[key]

\* routes/payment.py:56  MIDTRANS_SERVER_KEY default
ServerKey == "SB-Mid-server-example"

\* hashlib.sha512(s).hexdigest(): a digest is modelled as a tag on its input
\* (no two inputs of the model collide)
Sha512(s) == "sha512:" \o s

\* WebhookHandler.verify_signature: the f-string renders a missing field as "None"
VerifySignature(payload) ==
  LET signature_string == Get(payload, "order_id") \o Get(payload, "status_code")
                            \o Get(payload, "gross_amount") \o ServerKey
  IN Sha512(signature_string) = Get(payload, "signature_key")

\* str.lower() on the transaction statuses of the model
Lower(s) ==
  CASE s = "SETTLEMENT" -> "settlement"
    [] s = "Expire" -> "expire"
    [] OTHER -> s

\* WebhookHandler.parse_notification: the first required field that is missing
RequiredFields == <<"transaction_id", "order_id", "transaction_status", "gross_amount", "payment_type">>

MissingFields(payload) == {i \in 1..Len(RequiredFields) : payload[RequiredFields[i]] = Absent}

\* WebhookHandler.map_status_to_payment_status
MapStatusToPaymentStatus(transaction_status, fraud_status) ==
  IF fraud_status = "deny" THEN FAILED
  ELSE LET t == Lower(transaction_status)
       IN CASE t = "capture" -> SUCCESS
            [] t = "settlement" -> SUCCESS
            [] t = "pending" -> PENDING
            [] t = "deny" -> FAILED
            [] t = "cancel" -> CANCELED
            [] t = "expire" -> EXPIRED
            [] t = "refund" -> REFUNDED
            [] t = "partial_refund" -> REFUNDED
            [] OTHER -> PENDING

WebhookOutcome(d, code, status, payment_id, old_status, new_status) ==
  [db |-> d, code |-> code, status |-> status, payment_id |-> payment_id,
   old_status |-> old_status, new_status |-> new_status]

\* process_webhook writing the status whether or not it differs from the
\* stored one
ProcessWebhookAlwaysWrite(d, payload, verify_signature) ==
  IF verify_signature /\ ~VerifySignature(payload)
    THEN WebhookOutcome(d, 401, "Invalid signature", None, None, None)
  ELSE IF MissingFields(payload) # {}
    THEN WebhookOutcome(d, 400, "Missing required field", None, None, None)
  ELSE LET new_status == MapStatusToPaymentStatus(payload.transaction_status,
                                                  Get(payload, "fraud_status"))
           payments == GetPaymentsByOrder(d, payload.order_id)
       IN IF Len(payments) = 0
            THEN WebhookOutcome(d, 200, "warning", None, None, None)
            ELSE LET payment == payments[1]
                     d2 == UpdatePaymentStatus(d, payment.id, new_status)
                 IN WebhookOutcome(d2, 200, "success", payment.id, payment.status, new_status)

\* process_webhook without the signature check
ProcessWebhookNoVerify(d, payload, verify_signature) ==
  IF MissingFields(payload) # {}
    THEN WebhookOutcome(d, 400, "Missing required field", None, None, None)
  ELSE LET new_status == MapStatusToPaymentStatus(payload.transaction_status,
                                                  Get(payload, "fraud_status"))
           payments == GetPaymentsByOrder(d, payload.order_id)
       IN IF Len(payments) = 0
            THEN WebhookOutcome(d, 200, "warning", None, None, None)
            ELSE LET payment == payments[1]
                     d2 == IF payment.status # new_status
                             THEN UpdatePaymentStatus(d, payment.id, new_status)
                             ELSE d
                 IN WebhookOutcome(d2, 200, "success", payment.id, payment.status, new_status)

\* process_webhook without parse_notification's check of the required fields
ProcessWebhookNoParse(d, payload, verify_signature) ==
  IF verify_signature /\ ~VerifySignature(payload)
    THEN WebhookOutcome(d, 401, "Invalid signature", None, None, None)
  ELSE LET new_status == MapStatusToPaymentStatus(payload.transaction_status,
                                                  Get(payload, "fraud_status"))
           payments == GetPaymentsByOrder(d, payload.order_id)
       IN IF Len(payments) = 0
            THEN WebhookOutcome(d, 200, "warning", None, None, None)
            ELSE LET payment == payments[1]
                     d2 == IF payment.status # new_status
                             THEN UpdatePaymentStatus(d, payment.id, new_status)
                             ELSE d
                 IN WebhookOutcome(d2, 200, "success", payment.id, payment.status, new_status)

\* process_webhook that leaves a payment in a final status as it is
ProcessWebhookKeepFinal(d, payload, verify_signature) ==
  IF verify_signature /\ ~VerifySignature(payload)
    THEN WebhookOutcome(d, 401, "Invalid signature", None, None, None)
  ELSE IF MissingFields(payload) # {}
    THEN WebhookOutcome(d, 400, "Missing required field", None, None, None)
  ELSE LET new_status == MapStatusToPaymentStatus(payload.transaction_status,
                                                  Get(payload, "fraud_status"))
           payments == GetPaymentsByOrder(d, payload.order_id)
       IN IF Len(payments) = 0
            THEN WebhookOutcome(d, 200, "warning", None, None, None)
            ELSE LET payment == payments[1]
                     d2 == IF payment.status # new_status
                               /\ payment.status \in {PENDING, PROCESSING}
                             THEN UpdatePaymentStatus(d, payment.id, new_status)
                             ELSE d
                 IN WebhookOutcome(d2, 200, "success", payment.id, payment.status, new_status)

\* process_webhook answering 404 for an order without a payment
ProcessWebhookNotFound(d, payload, verify_signature) ==
  IF verify_signature /\ ~VerifySignature(payload)
    THEN WebhookOutcome(d, 401, "Invalid signature", None, None, None)
  ELSE IF MissingFields(payload) # {}
    THEN WebhookOutcome(d, 400, "Missing required field", None, None, None)
  ELSE LET new_status == MapStatusToPaymentStatus(payload.transaction_status,
                                                  Get(payload, "fraud_status"))
           payments == GetPaymentsByOrder(d, payload.order_id)
       IN IF Len(payments) = 0
            THEN WebhookOutcome(d, 404, "Payment not found", None, None, None)
            ELSE LET payment == payments[1]
                     d2 == IF payment.status # new_status
                             THEN UpdatePaymentStatus(d, payment.id, new_status)
                             ELSE d
                 IN WebhookOutcome(d2, 200, "success", payment.id, payment.status, new_status)

\* WebhookHandler.process_webhook
ProcessWebhook(d, payload, verify_signature) ==
  IF verify_signature /\ ~VerifySignature(payload)
    THEN WebhookOutcome(d, 401, "Invalid signature", None, None, None)
  ELSE IF MissingFields(payload) # {}
    THEN WebhookOutcome(d, 400, "Missing required field", None, None, None)
  ELSE LET new_status == MapStatusToPaymentStatus(payload.transaction_status,
                                                  Get(payload, "fraud_status"))
           payments == GetPaymentsByOrder(d, payload.order_id)
       IN IF Len(payments) = 0
            THEN WebhookOutcome(d, 200, "warning", None, None, None)
            ELSE LET payment == payments[1]
                     d2 == IF payment.status # new_status
                             THEN UpdatePaymentStatus(d, payment.id, new_status)
                             ELSE d
                 IN WebhookOutcome(d2, 200, "success", payment.id, payment.status, new_status)

\* the status mapping of MidtransAdapter.handle_notification
AdapterNotificationStatus(transaction_status) ==
  LET t == Lower(transaction_status)
  IN CASE t = "pending" -> PENDING
       [] t = "capture" -> SUCCESS
       [] t = "settlement" -> SUCCESS
       [] t = "deny" -> FAILED
       [] t = "cancel" -> CANCELED
       [] t = "expire" -> EXPIRED
       [] t = "refund" -> REFUNDED
       [] t = "partial_refund" -> REFUNDED
       [] OTHER -> PENDING

\* MidtransAdapter.handle_notification: the normalized notification
AdapterHandleNotification(payload) ==
  [ transaction_id |-> GetOr(payload, "transaction_id", ""),
    order_id |-> GetOr(payload, "order_id", ""),
    status |-> AdapterNotificationStatus(GetOr(payload, "transaction_status", "")),
    payment_type |-> GetOr(payload, "payment_type", "") ]

\* PaymentService.handle_notification
ServiceHandleNotification(d, payload) ==
  LET notification == AdapterHandleNotification(payload)
      payments == GetPaymentsByOrder(d, notification.order_id)
  IN IF Len(payments) > 0
       THEN LET payment == payments[1]
            IN IF payment.status # notification.status
                 THEN [db |-> UpdatePaymentStatus(d, payment.id, notification.status),
                       ret |-> notification, payment_id |-> payment.id,
                       old_status |-> payment.status]
                 ELSE [db |-> d, ret |-> notification, payment_id |-> payment.id,
                       old_status |-> payment.status]
       ELSE [db |-> d, ret |-> notification, payment_id |-> None, old_status |-> None]

-----------------------------------------------------------------------------
(* Requests.  `last` logs the request handled by the latest step.  The      *)
(* parameter g of a handler is what the gateway holds: a report per order.  *)

\* op: the handler; id: the payment id or order id it was called with;
\* code: the HTTP status of the response (0 for a direct call of the
\* service); err: the exception's message or the body's "status"; status:
\* the status returned; before: the Payment the request is about as it was
\* stored when the request arrived; ret: the Payment returned; rows: the list
\* returned (for create: the request's amount, the gateway's answer and
\* whether the save's commit went through; for
\* a webhook: the rest of the response body; for a cancel: the gateway's
\* answer to the cancel call; for an override: the Payment as
\* the storage update left it, which the handler's get_payment then reads);
\* calls: the gateway calls made, in order
Log(op, id, code, err, status, before, ret, rows, calls) ==
  [op |-> op, id |-> id, code |-> code, err |-> err, status |-> status,
   before |-> before, ret |-> ret, rows |-> rows, calls |-> calls]

\* the most recently created Payment of an order, as reconciliation picks it
ActivePayment(d, order_id) ==
  LET payments == GetPaymentsByOrder(d, order_id)
  IN IF Len(payments) = 0 THEN NoPayment ELSE payments[1]

StatusOfPayment(payment) == IF payment = NoPayment THEN None ELSE payment.status

\* the stored status of a payment id, None when there is no row
StoredStatus(d, payment_id) == StatusOfPayment(StorageGetPayment(d, payment_id))

\* routes/payment.py create_payment: POST /payments
CreatePayment(order_id, amount, payment_method, snap, dbok) ==
  LET r == ServiceCreatePayment(db, order_id, amount, payment_method, snap, dbok)
  IN /\ db' = r.db
     /\ last' = Log("create", order_id, IF r.err = NoError THEN 201 ELSE 400, r.err,
                    StatusOfPayment(r.ret), ActivePayment(db, order_id), r.ret,
                    <<[amount |-> amount, snap |-> snap, dbok |-> dbok]>>, r.calls)
     /\ UNCHANGED <<now, tz, workers, refunds>>

\* routes/payment.py get_payment: GET /payments/{payment_id}
GetPayment(payment_id, up, g) ==
  LET r == ServiceGetPayment(db, payment_id, up, g)
  IN /\ db' = r.db
     /\ last' = Log("get", payment_id, IF r.ret = NoPayment THEN 404 ELSE 200, NoError,
                    StatusOfPayment(r.ret), StorageGetPayment(db, payment_id), r.ret, <<>>, r.calls)
     /\ UNCHANGED <<now, tz, workers, refunds>>

\* routes/payment.py force_check_payment_status: GET /payments/{payment_id}/status
\* get_payment, then get_payment_status, then get_payment again; a1, a2, a3
\* are the gateway's answers to the status calls the three may make
ForceCheckPaymentStatus(payment_id, a1, a2, a3) ==
  LET r1 == ServiceGetPayment(db, payment_id, a1[1], a1[2])
      r2 == ServiceGetPaymentStatus(r1.db, payment_id, a2[1], a2[2])
      r3 == ServiceGetPayment(r2.db, payment_id, a3[1], a3[2])
  IN IF r1.ret = NoPayment
       THEN /\ db' = r1.db
            /\ last' = Log("force_check", payment_id, 404, NoError, None, NoPayment,
                           NoPayment, <<>>, r1.calls)
            /\ UNCHANGED <<now, tz, workers, refunds>>
       ELSE /\ db' = r3.db
            /\ last' = Log("force_check", payment_id, 200, NoError, r2.ret,
                           StorageGetPayment(db, payment_id), r3.ret, <<>>,
                           r1.calls \o r2.calls \o r3.calls)
            /\ UNCHANGED <<now, tz, workers, refunds>>

\* the status code of the cancel and refund routes: 200 with the Payment,
\* 400 for every ValueError of the service
ValueErrorStatusCode(err) == IF err = NoError THEN 200 ELSE 400

\* routes/payment.py cancel_payment: POST /payments/{payment_id}/cancel
CancelPayment(payment_id, answer, fmt) ==
  LET r == ServiceCancelPayment(db, payment_id, answer, fmt)
  IN /\ db' = r.db
     /\ last' = Log("cancel", payment_id, ValueErrorStatusCode(r.err), r.err,
                    StatusOfPayment(r.ret), StorageGetPayment(db, payment_id), r.ret,
                    <<answer>>, r.calls)
     /\ UNCHANGED <<now, tz, workers, refunds>>

\* refund amounts of a request: None (full refund) or a partial amount
RefundAmounts == {None, "50"}

\* routes/payment.py refund_payment: POST /payments/{payment_id}/refund
RefundPayment(payment_id, amount, statusok, gwok, fmt) ==
  LET r == ServiceRefundPayment(db, payment_id, amount, statusok, gwok, fmt)
  IN /\ db' = r.db
     /\ last' = Log("refund", payment_id, ValueErrorStatusCode(r.err), r.err,
                    StatusOfPayment(r.ret), StorageGetPayment(db, payment_id), r.ret, <<>>, r.calls)
     /\ UNCHANGED <<now, tz, workers, refunds>>

\* routes/payment.py get_payments_by_order: GET /payments/order/{order_id}
GetPaymentsByOrderRoute(order_id) ==
  /\ last' = Log("list", order_id, 200, NoError, None, NoPayment, NoPayment,
                 GetPaymentsByOrder(db, order_id), <<>>)
  /\ UNCHANGED <<db, now, tz, workers, refunds>>

\* the status strings of a manual override request
OverrideStatuses == PaymentStatus \cup {"SUCCESS", "bogus", ""}

\* new_status_str.lower() on the strings of the model
UpperLower(s) == IF s = "SUCCESS" THEN SUCCESS ELSE s

\* routes/payment.py update_payment_status: PUT /payments/{payment_id}/status
\* storage update, then the service's get_payment (which may refresh)
ManualUpdatePaymentStatus(payment_id, new_status_str, up, g) ==
  IF new_status_str = ""
    THEN /\ last' = Log("override", payment_id, 400, "Status is required", None,
                        StorageGetPayment(db, payment_id), NoPayment, <<>>, <<>>)
         /\ UNCHANGED <<db, now, tz, workers, refunds>>
  ELSE IF UpperLower(new_status_str) \notin PaymentStatus
    THEN /\ last' = Log("override", payment_id, 400, "Invalid status", None,
                        StorageGetPayment(db, payment_id), NoPayment, <<>>, <<>>)
         /\ UNCHANGED <<db, now, tz, workers, refunds>>
  ELSE IF ~Exists(db, payment_id)
    THEN \* update_payment_status raises ValueError, caught by `except Exception`
         /\ last' = Log("override", payment_id, 500, "Failed to update payment status",
                        None, NoPayment, NoPayment, <<>>, <<>>)
         /\ UNCHANGED <<db, now, tz, workers, refunds>>
  ELSE LET d1 == UpdatePaymentStatus(db, payment_id, UpperLower(new_status_str))
           r == ServiceGetPayment(d1, payment_id, up, g)
       IN /\ db' = r.db
          /\ last' = Log("override", payment_id, 200, NoError, StatusOfPayment(r.ret),
                         StorageGetPayment(db, payment_id), r.ret,
                         <<StorageGetPayment(d1, payment_id)>>, r.calls)
          /\ UNCHANGED <<now, tz, workers, refunds>>

\* a notification payload: an order, a (transaction_status, fraud_status)
\* pair, a signature that is the right one or not, and at most one required
\* field left out (missing = 0: none)
MakePayload(order_id, report, signed, missing) ==
  LET full == [ transaction_id |-> "txn-" \o order_id,
                order_id |-> order_id,
                transaction_status |-> report[1],
                gross_amount |-> "100.00",
                payment_type |-> "qris",
                fraud_status |-> IF report[2] = None THEN Absent ELSE report[2],
                status_code |-> "200",
                signature_key |-> IF signed
                                    THEN Sha512(order_id \o "200" \o "100.00" \o ServerKey)
                                    ELSE "forged" ]
  IN IF missing = 0 THEN full ELSE [full EXCEPT ![RequiredFields[missing]] = Absent]

\* the notification payloads of Spec: those the gateway sends for its
\* reports, for a stored or an unknown order, two with a transaction_status
\* outside the table, forged ones and ones with a field missing
NotificationReports ==
  Reports \cup {<<"cancel", None>>, <<"expire", None>>, <<"SETTLEMENT", None>>,
                <<"authorize", None>>}

Payloads ==
  {MakePayload(o, r, TRUE, 0) : o \in Orders, r \in NotificationReports}
  \cup {MakePayload("ORD-X", <<"settlement", "accept">>, TRUE, 0)}
  \cup {MakePayload(o, <<"expire", None>>, FALSE, 0) : o \in Orders}
  \cup {MakePayload(o, <<"settlement", "accept">>, TRUE, m) :
           o \in Orders, m \in 1..Len(RequiredFields)}

\* routes/payment.py handle_webhook (verify_signature = TRUE) and the
\* handler called with verification switched off
Webhook(payload, verify_signature) ==
  LET r == ProcessWebhook(db, payload, verify_signature)
  IN /\ db' = r.db
     /\ last' = Log("webhook", Get(payload, "order_id"), r.code, r.status, r.new_status,
                    ActivePayment(db, Get(payload, "order_id")), NoPayment,
                    <<[old_status |-> r.old_status, payment_id |-> r.payment_id,
                       verify |-> verify_signature]>>, <<>>)
     /\ UNCHANGED <<now, tz, workers, refunds>>

\* PaymentService.handle_notification called with a payload
HandleNotification(payload) ==
  LET r == ServiceHandleNotification(db, payload)
  IN /\ db' = r.db
     /\ last' = Log("notification", Get(payload, "order_id"), 0, NoError, r.ret.status,
                    ActivePayment(db, Get(payload, "order_id")), NoPayment, <<>>, <<>>)
     /\ UNCHANGED <<now, tz, workers, refunds>>

\* time passes
Tick ==
  /\ now < MaxClock
  /\ now' = now + 1
  /\ UNCHANGED <<db, last, tz, workers, refunds>>

NoRequest == Log("none", None, 0, NoError, None, NoPayment, NoPayment, <<>>, <<>>)

\* what the gateway may hold for every order while one request is handled
GatewayStates == {[o \in Orders |-> r] : r \in Reports}

GatewayDown == [o \in Orders |-> NoTxn]

\* a status call's environment: the gateway answers and holds g, or it does
\* not answer (and what it holds is not seen)
NoAnswer == <<FALSE, GatewayDown>>

GatewayAnswers == {<<TRUE, g>> : g \in GatewayStates} \cup {NoAnswer}

\* the answers tried for the refresh that follows a manual override
OverrideAnswers == {NoAnswer, <<TRUE, [o \in Orders |-> <<"settlement", "accept">>]>>}

\* the payloads handed to the service's handle_notification, which reads
\* order_id and transaction_status only
NotificationPayloads ==
  {p \in Payloads : \A i \in MissingFields(p) : RequiredFields[i] \in {"order_id", "transaction_status"}}

\* the server processes (uvicorn workers, containers) started on the database
Workers == 1..NWorkers

\* a process that is between requests
Idle == [pc |-> "idle"]

\* no process is in the middle of a request
AllIdle == [w \in Workers |-> Idle]

\* the gateway has received no refund call
NoRefunds == [o \in Orders |-> 0]

Init ==
  /\ db = {}
  /\ now = 0
  /\ last = NoRequest
  /\ gw = [o \in Orders |-> <<>>]
  /\ applied = 0
  /\ tz = 0
  /\ workers = AllIdle
  /\ refunds = NoRefunds

\* In Spec the gateway is an input of each handler and the variables of
\* SpecGateway stay as they are.  Inputs a handler does not get to read are
\* not varied.
Next ==
  \/ \E o \in Orders \cup {""}, a \in RequestAmounts, m \in PaymentMethod,
        snap \in SnapOutcomes, dbok \in BOOLEAN :
        /\ (o = "" \/ a <= 0) => snap = "timeout"
        /\ snap \notin {"201", "201-no-redirect"} => dbok
        /\ CreatePayment(o, a, m, snap, dbok)
        /\ UNCHANGED <<gw, applied>>
  \/ \E id \in PaymentIds, a \in GatewayAnswers :
        /\ GetPayment(id, a[1], a[2])
        /\ UNCHANGED <<gw, applied>>
  \/ \E id \in PaymentIds :
       \E a1 \in IF StoredStatus(db, id) \in {PENDING, PROCESSING}
                    THEN GatewayAnswers ELSE {NoAnswer} :
         \E a2 \in GatewayAnswers :
           \E a3 \in IF \E o \in Orders : AdapterGetPaymentStatus(a2[1], a2[2][o]) = PENDING
                        THEN GatewayAnswers ELSE {NoAnswer} :
             /\ ForceCheckPaymentStatus(id, a1, a2, a3)
             /\ UNCHANGED <<gw, applied>>
  \/ \E id \in PaymentIds, answer \in CancelAnswers, fmt \in EnumFormats :
        /\ IF StoredStatus(db, id) \in {PENDING, PROCESSING}
             THEN fmt = "value" ELSE answer = CancelFailed
        /\ CancelPayment(id, answer, fmt)
        /\ UNCHANGED <<gw, applied>>
  \/ \E id \in PaymentIds, a \in RefundAmounts, statusok, gwok \in BOOLEAN,
        fmt \in EnumFormats :
        /\ a # None => statusok
        /\ IF StoredStatus(db, id) = SUCCESS
             THEN fmt = "value" ELSE a = None /\ statusok /\ gwok
        /\ RefundPayment(id, a, statusok, gwok, fmt)
        /\ UNCHANGED <<gw, applied>>
  \/ \E o \in Orders :
        /\ GetPaymentsByOrderRoute(o)
        /\ UNCHANGED <<gw, applied>>
  \/ \E id \in PaymentIds, st \in OverrideStatuses, a \in OverrideAnswers :
        /\ UpperLower(st) \notin {PENDING, PROCESSING} => ~a[1]
        /\ ManualUpdatePaymentStatus(id, st, a[1], a[2])
        /\ UNCHANGED <<gw, applied>>
  \/ \E p \in Payloads, v \in BOOLEAN :
        /\ VerifySignature(p) => v
        /\ Webhook(p, v)
        /\ UNCHANGED <<gw, applied>>
  \/ \E p \in NotificationPayloads :
        /\ HandleNotification(p)
        /\ UNCHANGED <<gw, applied>>
  \/ Tick /\ UNCHANGED <<gw, applied>>

Spec == Init /\ [][Next]_vars

-----------------------------------------------------------------------------
(* The service on a server whose local time is not UTC.  Spec runs it with  *)
(* local time equal to UTC; here the offset is drawn at the start, and the  *)
(* requests are those that stamp or restamp a payment.                      *)

\* largest offset of local time from UTC, either way, in clock steps
MaxOffset == 1

TzOffsets == (0 - MaxOffset)..MaxOffset

InitClock ==
  /\ db = {}
  /\ now = 0
  /\ last = NoRequest
  /\ gw = [o \in Orders |-> <<>>]
  /\ applied = 0
  /\ tz \in TzOffsets
  /\ workers = AllIdle
  /\ refunds = NoRefunds

NextClock ==
  \/ \E o \in Orders, a \in Amounts :
        /\ CreatePayment(o, a, "qris", "201", TRUE)
        /\ UNCHANGED <<gw, applied>>
  \/ \E id \in PaymentIds, a \in GatewayAnswers :
        /\ GetPayment(id, a[1], a[2])
        /\ UNCHANGED <<gw, applied>>
  \/ \E id \in PaymentIds, answer \in CancelAnswers :
        /\ CancelPayment(id, answer, "value")
        /\ UNCHANGED <<gw, applied>>
  \/ \E id \in PaymentIds, a \in RefundAmounts :
        /\ RefundPayment(id, a, TRUE, TRUE, "value")
        /\ UNCHANGED <<gw, applied>>
  \/ \E p \in Payloads :
        /\ Webhook(p, TRUE)
        /\ UNCHANGED <<gw, applied>>
  \/ Tick /\ UNCHANGED <<gw, applied>>

SpecClock == InitClock /\ [][NextClock]_vars

-----------------------------------------------------------------------------
(* The service next to a gateway whose transactions advance.  gw[o] is the  *)
(* sequence of reports the gateway has held for order o, the last one being *)
(* what its status endpoint answers now; a notification is sent for every   *)
(* report and may be delivered late or again.  applied is the position in   *)
(* gw[o] of the report whose status was written to storage last (0: none).  *)

\* reports per order
MaxReports == 3

\* how a transaction advances at the gateway
NextReports(r) ==
  CASE r = <<"pending", None>> -> {<<"settlement", "accept">>, <<"capture", "deny">>,
                                   <<"expire", None>>}
    [] r = <<"settlement", "accept">> -> {<<"refund", None>>}
    [] OTHER -> {}

\* what the status endpoint answers for every order
LatestReports == [o \in Orders |-> IF gw[o] = <<>> THEN NoTxn ELSE gw[o][Len(gw[o])]]

\* the report written last: position v if this step changed the stored
\* status of the order's payment (a handler writes only a status that
\* differs from the stored one), else as before
AppliedAfter(o, v) ==
  applied' = IF StoredStatus(db', PaymentId(o)) # StoredStatus(db, PaymentId(o))
               THEN v ELSE applied

\* POST /payments for an order the gateway has no transaction for: the
\* gateway opens one, pending
CreateAtGateway(o) ==
  /\ gw[o] = <<>>
  /\ CreatePayment(o, 100, "qris", "201", TRUE)
  /\ gw' = [gw EXCEPT ![o] = <<(<<"pending", None>>)>>]
  /\ UNCHANGED applied

\* the transaction of order o advances at the gateway
GatewayAdvance(o) ==
  /\ gw[o] # <<>>
  /\ Len(gw[o]) < MaxReports
  /\ \E r \in NextReports(gw[o][Len(gw[o])]) : gw' = [gw EXCEPT ![o] = Append(@, r)]
  /\ UNCHANGED <<db, now, last, applied, tz, workers, refunds>>

\* GET /payments/{payment_id} answered by the gateway's latest report
PollGet(o) ==
  /\ GetPayment(PaymentId(o), TRUE, LatestReports)
  /\ AppliedAfter(o, Len(gw[o]))
  /\ UNCHANGED gw

\* GET /payments/{payment_id}/status answered by the gateway's latest report
PollForceCheck(o) ==
  /\ ForceCheckPaymentStatus(PaymentId(o), <<TRUE, LatestReports>>, <<TRUE, LatestReports>>,
                             <<TRUE, LatestReports>>)
  /\ AppliedAfter(o, Len(gw[o]))
  /\ UNCHANGED gw

\* POST /payments/webhook: the notification of the i-th report arrives
DeliverWebhook(o, i) ==
  /\ Webhook(MakePayload(o, gw[o][i], TRUE, 0), TRUE)
  /\ AppliedAfter(o, i)
  /\ UNCHANGED gw

NextGateway ==
  \/ \E o \in Orders : CreateAtGateway(o)
  \/ \E o \in Orders : GatewayAdvance(o)
  \/ \E o \in Orders : PollGet(o)
  \/ \E o \in Orders : PollForceCheck(o)
  \/ \E o \in Orders : \E i \in 1..Len(gw[o]) : DeliverWebhook(o, i)
  \/ Tick /\ UNCHANGED <<gw, applied>>

SpecGateway == Init /\ [][NextGateway]_vars

-----------------------------------------------------------------------------
(* The three status mappings of the code, each applied to one gateway       *)
(* answer.  The answer (transaction_status, fraud_status; None for a field   *)
(* that is not there) is drawn at the start and kept in last.rows; every     *)
(* step applies one mapping to it and logs the status it returns.            *)

\* the transaction_status values of the mapping table, two spellings in
\* capitals, a value outside the table, and no value
TransactionStatuses ==
  {"capture", "settlement", "pending", "deny", "cancel", "expire", "refund",
   "partial_refund", "SETTLEMENT", "Expire", "authorize", None}

FraudStatuses == {None, "accept", "challenge", "deny"}

\* a notification payload carrying the answer
MappingPayload(answer) ==
  [MakePayload("ORD-1", answer, TRUE, 0)
     EXCEPT !.transaction_status = IF answer[1] = None THEN Absent ELSE answer[1]]

MappingLog(op, status, answer) ==
  Log(op, None, 0, NoError, status, NoPayment, NoPayment, <<answer>>, <<>>)

\* MidtransAdapter.get_payment_status on a 200 response carrying the answer
QueryStatus ==
  /\ last' = MappingLog("query_status", AdapterGetPaymentStatus(TRUE, last.rows[1]), last.rows[1])
  /\ UNCHANGED <<db, now, gw, applied, tz, workers, refunds>>

\* MidtransAdapter.handle_notification on a payload carrying the answer
NormalizeNotification ==
  /\ last' = MappingLog("normalize_notification",
                        AdapterHandleNotification(MappingPayload(last.rows[1])).status,
                        last.rows[1])
  /\ UNCHANGED <<db, now, gw, applied, tz, workers, refunds>>

\* WebhookHandler.map_status_to_payment_status as process_webhook calls it:
\* parse_notification has made sure that transaction_status is there
MapWebhookStatus ==
  /\ last.rows[1][1] # None
  /\ last' = MappingLog("map_status",
                        MapStatusToPaymentStatus(MappingPayload(last.rows[1]).transaction_status,
                                                 Get(MappingPayload(last.rows[1]), "fraud_status")),
                        last.rows[1])
  /\ UNCHANGED <<db, now, gw, applied, tz, workers, refunds>>

InitMapping ==
  /\ db = {}
  /\ now = 0
  /\ gw = [o \in Orders |-> <<>>]
  /\ applied = 0
  /\ tz = 0
  /\ workers = AllIdle
  /\ refunds = NoRefunds
  /\ \E transaction_status \in TransactionStatuses, fraud_status \in FraudStatuses :
        last = MappingLog("answer", None, <<transaction_status, fraud_status>>)

NextMapping == QueryStatus \/ NormalizeNotification \/ MapWebhookStatus

SpecMapping == InitMapping /\ [][NextMapping]_vars

-----------------------------------------------------------------------------
(* The storage adapter's save_payment called on its own, with payments that *)
(* carry metadata (one with a null artifact), an empty metadata dict, or    *)
(* none.                                                                    *)

\* the payments handed to save_payment at the present time
SavedPayments ==
  { [ id |-> PaymentId(o), order_id |-> o, transaction_id |-> o, amount |-> a,
      status |-> st, payment_method |-> "qris", payment_url |-> u,
      created_at |-> AdapterNow, updated_at |-> AdapterNow, metadata |-> m ] :
      o \in Orders, a \in Amounts, st \in {PENDING, SUCCESS},
      u \in {None, "https://snap/redirect"},
      m \in {MetaNone, MetaEmpty, [token |-> "snap-token"], [token |-> None],
              [token |-> "snap-token-2", redirect_url |-> "https://snap/redirect"]} }

\* DatabaseAdapter.save_payment(payment)
SavePaymentCall(payment) ==
  /\ db' = SavePayment(db, payment)
  /\ last' = Log("save", payment.id, 0, NoError, payment.status,
                 StorageGetPayment(db, payment.id), payment, <<>>, <<>>)
  /\ UNCHANGED <<now, gw, applied, tz, workers, refunds>>

InitSave == Init

NextSave ==
  \/ \E payment \in SavedPayments : SavePaymentCall(payment)
  \/ Tick /\ UNCHANGED <<gw, applied>>

SpecSave == InitSave /\ [][NextSave]_vars

-----------------------------------------------------------------------------
(* The service run as several processes on the one database.  Inside one    *)
(* process a handler runs to its end before the next starts (no adapter     *)
(* call suspends); between processes the steps of handlers interleave at    *)
(* every storage transaction and every gateway call.  workers[w] is the     *)
(* request process w is in the middle of; refunds[o] counts the refund      *)
(* calls the gateway has carried out for order o.                           *)

\* refund calls the gateway carries out per order
MaxRefundCalls == 2

\* a request in progress: pc = the step that comes next, op = the handler,
\* id = the payment id, order_id = the order of the Payment the handler read
\* first, status = the status update_payment_status is called with, loaded =
\* the row its query read, stamp = its utcnow()
InProgress(pc, op, id, order_id, status, loaded, stamp) ==
  [pc |-> pc, op |-> op, id |-> id, order_id |-> order_id, status |-> status,
   loaded |-> loaded, stamp |-> stamp]

NoRow == [payment_id |-> None]

\* session.commit() of update_payment_status: one UPDATE of the row with the
\* loaded primary key, in one transaction.  The unit of work puts into the
\* UPDATE the attributes whose value is not the loaded one: the status when
\* it differs from the status the query read, updated_at (a new utcnow).
CommitUpdate(d, loaded, status, stamp) ==
  {IF r.payment_id = loaded.payment_id
     THEN [r EXCEPT !.status = IF status # loaded.status THEN status ELSE @,
                    !.updated_at = stamp]
     ELSE r : r \in d}

\* some process is free to take a request
SomeIdle == \E w \in Workers : workers[w] = Idle

\* the process takes the request to its end: the response goes out
Respond(w, op, id, code, err, ret) ==
  /\ workers' = [workers EXCEPT ![w] = Idle]
  /\ last' = Log(op, id, code, err, StatusOfPayment(ret), NoPayment, ret, <<>>, <<>>)

\* PaymentService.cancel_payment up to its status check
CancelCheck(w, payment_id) ==
  /\ workers[w] = Idle
  /\ LET payment == StorageGetPayment(db, payment_id)
     IN IF payment = NoPayment
          THEN Respond(w, "cancel", payment_id, 400, "ValueError: not found", NoPayment)
        ELSE IF payment.status \notin {PENDING, PROCESSING}
          THEN Respond(w, "cancel", payment_id, 400,
                       "ValueError: Cannot cancel payment with status: "
                         \o FormatStatus(payment.status, "value"), NoPayment)
        ELSE /\ workers' = [workers EXCEPT ![w] =
                  InProgress("cancel_gateway", "cancel", payment_id, payment.order_id,
                             CANCELED, NoRow, 0)]
             /\ UNCHANGED last
  /\ UNCHANGED <<db, now, gw, applied, tz, refunds>>

\* the adapter's cancel call
CancelGateway(w, answer) ==
  /\ workers[w].pc = "cancel_gateway"
  /\ LET updated_payment == AdapterCancelPayment(workers[w].order_id, answer)
     IN IF updated_payment.err # NoError
          THEN Respond(w, "cancel", workers[w].id, 400, updated_payment.err, NoPayment)
          ELSE /\ workers' = [workers EXCEPT ![w].pc = "update_query"]
               /\ UNCHANGED last
  /\ UNCHANGED <<db, now, gw, applied, tz, refunds>>

\* PaymentService.refund_payment (full refund) up to its status check
RefundCheck(w, payment_id) ==
  /\ workers[w] = Idle
  /\ LET payment == StorageGetPayment(db, payment_id)
     IN IF payment = NoPayment
          THEN Respond(w, "refund", payment_id, 400, "ValueError: not found", NoPayment)
        ELSE IF payment.status # SUCCESS
          THEN Respond(w, "refund", payment_id, 400,
                       "ValueError: Cannot refund payment with status: "
                         \o FormatStatus(payment.status, "value"), NoPayment)
        ELSE /\ workers' = [workers EXCEPT ![w] =
                  InProgress("refund_gateway", "refund", payment_id, payment.order_id,
                             REFUNDED, NoRow, 0)]
             /\ UNCHANGED last
  /\ UNCHANGED <<db, now, gw, applied, tz, refunds>>

\* the adapter's refund calls: the gateway carries out the refund it accepts
RefundGateway(w, statusok, gwok) ==
  /\ workers[w].pc = "refund_gateway"
  /\ LET order_id == workers[w].order_id
         updated_payment == AdapterRefundPayment(order_id, None, statusok, gwok)
     IN /\ updated_payment.err = NoError => refunds[order_id] < MaxRefundCalls
        /\ IF updated_payment.err # NoError
             THEN Respond(w, "refund", workers[w].id, 400, updated_payment.err, NoPayment)
             ELSE /\ workers' = [workers EXCEPT ![w].pc = "update_query"]
                  /\ UNCHANGED last
        /\ refunds' = IF updated_payment.err = NoError
                        THEN [refunds EXCEPT ![order_id] = @ + 1] ELSE refunds
  /\ UNCHANGED <<db, now, gw, applied, tz>>

\* DatabaseAdapter.update_payment_status called on its own
UpdateStatusCall(w, payment_id, status) ==
  /\ workers[w] = Idle
  /\ workers' = [workers EXCEPT ![w] =
        InProgress("update_query", "update_status", payment_id, None, status, NoRow, 0)]
  /\ UNCHANGED <<db, now, last, gw, applied, tz, refunds>>

\* update_payment_status: the query, and on a row the two assignments; no
\* row raises ValueError, which ends the request
UpdateQuery(w) ==
  /\ workers[w].pc = "update_query"
  /\ LET rows == RowsById(db, workers[w].id)
     IN IF rows = {}
          THEN Respond(w, workers[w].op, workers[w].id,
                       IF workers[w].op = "update_status" THEN 0 ELSE 400,
                       "ValueError: not found", NoPayment)
          ELSE /\ workers' = [workers EXCEPT ![w].pc = "update_commit",
                                             ![w].loaded = CHOOSE r \in rows : TRUE,
                                             ![w].stamp = UtcNow]
               /\ UNCHANGED last
  /\ UNCHANGED <<db, now, gw, applied, tz, refunds>>

\* update_payment_status: session.commit()
UpdateCommit(w) ==
  /\ workers[w].pc = "update_commit"
  /\ db' = CommitUpdate(db, workers[w].loaded, workers[w].status, workers[w].stamp)
  /\ workers' = [workers EXCEPT ![w].pc = "return"]
  /\ UNCHANGED <<now, last, gw, applied, tz, refunds>>

\* the get_payment that ends cancel and refund; the return of the update
Return(w) ==
  /\ workers[w].pc = "return"
  /\ Respond(w, workers[w].op, workers[w].id,
             IF workers[w].op = "update_status" THEN 0 ELSE 200, NoError,
             StorageGetPayment(db, workers[w].id))
  /\ UNCHANGED <<db, now, gw, applied, tz, refunds>>

\* the notifications the gateway sends for an order
WorkerPayloads ==
  {MakePayload(o, r, TRUE, 0) : o \in Orders,
     r \in {<<"settlement", "accept">>, <<"expire", None>>}}

\* an idle process handles POST /payments or a notification in one go
WorkerCreate(o) ==
  /\ SomeIdle
  /\ CreatePayment(o, 100, "qris", "201", TRUE)
  /\ UNCHANGED <<gw, applied>>

WorkerWebhook(p) ==
  /\ SomeIdle
  /\ Webhook(p, TRUE)
  /\ UNCHANGED <<gw, applied>>

\* update_payment_status called by several processes
NextUpdate ==
  \/ \E o \in Orders : WorkerCreate(o)
  \/ \E w \in Workers, id \in PaymentIds, status \in {SUCCESS, REFUNDED} :
        UpdateStatusCall(w, id, status)
  \/ \E w \in Workers : UpdateQuery(w)
  \/ \E w \in Workers : UpdateCommit(w)
  \/ \E w \in Workers : Return(w)
  \/ Tick /\ UNCHANGED <<gw, applied>>

SpecUpdate == Init /\ [][NextUpdate]_vars

\* cancel requests next to the gateway's notifications
NextCancel ==
  \/ \E o \in Orders : WorkerCreate(o)
  \/ \E p \in WorkerPayloads : WorkerWebhook(p)
  \/ \E w \in Workers, id \in PaymentIds : CancelCheck(w, id)
  \/ \E w \in Workers, answer \in {CancelFailed, CHOOSE b \in CancelBodies : TRUE} :
        CancelGateway(w, answer)
  \/ \E w \in Workers : UpdateQuery(w)
  \/ \E w \in Workers : UpdateCommit(w)
  \/ \E w \in Workers : Return(w)
  \/ Tick /\ UNCHANGED <<gw, applied>>

SpecCancel == Init /\ [][NextCancel]_vars

\* refund requests for a settled payment
NextRefund ==
  \/ \E o \in Orders : WorkerCreate(o)
  \/ \E p \in WorkerPayloads : WorkerWebhook(p)
  \/ \E w \in Workers, id \in PaymentIds : RefundCheck(w, id)
  \/ \E w \in Workers, statusok, gwok \in BOOLEAN : RefundGateway(w, statusok, gwok)
  \/ \E w \in Workers : UpdateQuery(w)
  \/ \E w \in Workers : UpdateCommit(w)
  \/ \E w \in Workers : Return(w)
  \/ Tick /\ UNCHANGED <<gw, applied>>

SpecRefund == Init /\ [][NextRefund]_vars

-----------------------------------------------------------------------------
(* The service polled for a payment whose transaction the gateway has.  The *)
(* gateway answers every status call, notifications carry the report the    *)
(* gateway holds, and a GET for a stored payment is always handled in the   *)
(* end.                                                                     *)

\* POST /payments/webhook: the notification of the gateway's present report
RedeliverWebhook(o) ==
  /\ gw[o] # <<>>
  /\ DeliverWebhook(o, Len(gw[o]))

NextConverge ==
  \/ \E o \in Orders : CreateAtGateway(o)
  \/ \E o \in Orders : GatewayAdvance(o)
  \/ \E o \in Orders : PollGet(o)
  \/ \E o \in Orders : PollForceCheck(o)
  \/ \E o \in Orders : RedeliverWebhook(o)
  \/ Tick /\ UNCHANGED <<gw, applied>>

\* clients keep asking for their payment and the server handles every
\* request that arrives: the GET of a payment is not put off for ever
SpecConverge ==
  /\ Init
  /\ [][NextConverge]_vars
  /\ \A o \in Orders : WF_vars(PollGet(o))

-----------------------------------------------------------------------------
(* The service with payments of several orders stored side by side.         *)

\* orders with a stored payment each
NFrameOrders == 2

FrameOrders == {OrderName(i) : i \in 1..NFrameOrders}

FramePaymentIds == {PaymentId(o) : o \in FrameOrders}

\* the gateway's answers to a status call: no answer, or the same report
\* for every order
FrameAnswers ==
  {<<FALSE, [o \in FrameOrders |-> NoTxn]>>}
  \cup {<<TRUE, [o \in FrameOrders |-> r]>> :
          r \in {<<"pending", None>>, <<"settlement", "accept">>}}

NextFrame ==
  \/ \E o \in FrameOrders :
        /\ ~Exists(db, PaymentId(o))
        /\ CreatePayment(o, 100, "qris", "201", TRUE)
        /\ UNCHANGED <<gw, applied>>
  \/ \E id \in FramePaymentIds, a \in FrameAnswers :
        /\ GetPayment(id, a[1], a[2])
        /\ UNCHANGED <<gw, applied>>
  \/ \E id \in FramePaymentIds, a \in FrameAnswers :
        /\ ForceCheckPaymentStatus(id, a, a, a)
        /\ UNCHANGED <<gw, applied>>
  \/ \E id \in FramePaymentIds, answer \in CancelAnswers :
        /\ CancelPayment(id, answer, "value")
        /\ UNCHANGED <<gw, applied>>
  \/ \E id \in FramePaymentIds, gwok \in BOOLEAN :
        /\ RefundPayment(id, None, TRUE, gwok, "value")
        /\ UNCHANGED <<gw, applied>>
  \/ \E id \in FramePaymentIds, st \in {"SUCCESS", PENDING, EXPIRED}, a \in FrameAnswers :
        /\ ManualUpdatePaymentStatus(id, st, a[1], a[2])
        /\ UNCHANGED <<gw, applied>>
  \/ \E o \in FrameOrders, r \in {<<"settlement", "accept">>, <<"capture", "deny">>} :
        /\ Webhook(MakePayload(o, r, TRUE, 0), TRUE)
        /\ UNCHANGED <<gw, applied>>
  \/ Tick /\ UNCHANGED <<gw, applied>>

SpecFrame == Init /\ [][NextFrame]_vars

-----------------------------------------------------------------------------
(* Properties.  They are stated on the log of the last request: what was    *)
(* stored when it arrived (last.before), what it returned, which gateway    *)
(* calls it made, and the table it left (db).                               *)

\* the transitions of the status state machine
Allowed(old, new) ==
  \/ old \in {PENDING, PROCESSING} /\ new \in {SUCCESS, FAILED, CANCELED, EXPIRED}
  \/ old = SUCCESS /\ new = REFUNDED

TerminalStatuses == {SUCCESS, FAILED, CANCELED, EXPIRED, REFUNDED}

\* the last request made gateway calls and none brought a usable answer
AllCallsFailed == Len(last.calls) > 0 /\ \A i \in 1..Len(last.calls) : ~last.calls[i].ok

\* every gateway call of the last request brought a report
AllCallsAnswered == Len(last.calls) > 0 /\ \A i \in 1..Len(last.calls) : last.calls[i].ok

\* the last request ran the service's get_payment on a stored payment (the
\* get handler, or the read that ends a manual override), and the Payment
\* that get_payment read
RanGet ==
  \/ last.op = "get" /\ last.before # NoPayment
  \/ last.op = "override" /\ last.code = 200

GetRead == IF last.op = "override" THEN last.rows[1] ELSE last.before

\* C1: over create, get, force-check, cancel, refund, webhook and
\* notification, every change of a payment's stored status is a transition of
\* the state machine (PENDING/PROCESSING to SUCCESS, FAILED, CANCELED or
\* EXPIRED; SUCCESS to REFUNDED)
C1_StatusChangesFollowStateMachine ==
  (last.op \in {"create", "get", "force_check", "cancel", "refund", "webhook", "notification"}
     /\ last.before # NoPayment)
  => LET after == StoredStatus(db, last.before.id)
     IN after # last.before.status => Allowed(last.before.status, after)

\* C2: whatever the order of gets, force-checks and webhook deliveries while
\* the gateway's transaction advances, no report is written to storage after
\* a later report has been written
C2_NoStaleWrite == [][applied' >= applied]_vars

\* C3: a force-check whose gateway calls all fail leaves the stored status
\* as it was and returns that status
C3_ForceCheckUnavailableKeepsStatus ==
  (last.op = "force_check" /\ last.code = 200 /\ AllCallsFailed)
  => /\ StoredStatus(db, last.id) = last.before.status
     /\ last.status = last.before.status

\* C4: get_payment on a stored PENDING or PROCESSING payment whose gateway
\* query fails returns the payment with the status it read and leaves the
\* stored status and updated_at as they were
C4_GetKeepsStaleOnGatewayFailure ==
  (RanGet /\ GetRead.status \in {PENDING, PROCESSING} /\ AllCallsFailed)
  => /\ last.code = 200
     /\ last.ret.status = GetRead.status
     /\ StorageGetPayment(db, last.id).status = GetRead.status
     /\ StorageGetPayment(db, last.id).updated_at = GetRead.updated_at

\* the status the adapter's table gives the report of the i-th gateway call
MappedReport(i) == AdapterStatusMapping(last.calls[i].report[1], last.calls[i].report[2])

\* C5: get_payment on a stored PENDING or PROCESSING payment, with the
\* gateway answering a status whose mapped value differs from the stored one,
\* leaves the mapped status stored and returns a Payment that carries it
C5_GetPersistsGatewayStatus ==
  (RanGet /\ GetRead.status \in {PENDING, PROCESSING} /\ AllCallsAnswered
     /\ MappedReport(1) # GetRead.status)
  => /\ StoredStatus(db, last.id) = MappedReport(1)
     /\ last.ret.status = MappedReport(1)

\* a get found PENDING stored, the gateway reported settlement, and SUCCESS
\* is stored and returned
C5_Witness ==
  /\ last.op = "get" /\ last.before # NoPayment /\ last.before.status = PENDING
  /\ AllCallsAnswered /\ last.calls[1].report = <<"settlement", "accept">>
  /\ StoredStatus(db, last.id) = SUCCESS /\ last.ret.status = SUCCESS

\* C6: get_payment on a stored SUCCESS, FAILED, CANCELED, EXPIRED or REFUNDED
\* payment makes no gateway call and leaves the stored record as it was
C6_GetTerminalIsFrame ==
  (RanGet /\ GetRead.status \in TerminalStatuses)
  => /\ last.calls = <<>>
     /\ StorageGetPayment(db, last.id) = GetRead
     /\ last.ret = GetRead

\* a get on a stored REFUNDED payment returned it without a gateway call
C6_Witness ==
  /\ last.op = "get" /\ last.code = 200 /\ last.before # NoPayment
  /\ last.before.status = REFUNDED /\ last.calls = <<>>
  /\ StorageGetPayment(db, last.id) = last.before

\* the gateway call made by get_payment_status within a force-check: the
\* second when the first get_payment refreshed, else the first
ForcedCall == IF last.before.status \in {PENDING, PROCESSING} THEN 2 ELSE 1

\* C7: a force-check on a stored payment queries the gateway whatever the
\* stored status; when the gateway answers, the status returned is the mapped
\* status of the gateway's report and the stored status equals it afterwards
C7_ForceCheckReturnsStoredGatewayStatus ==
  (last.op = "force_check" /\ last.code = 200)
  => /\ Len(last.calls) >= ForcedCall
     /\ last.calls[ForcedCall].endpoint = "status"
     /\ AllCallsAnswered =>
          /\ last.status = MappedReport(ForcedCall)
          /\ StoredStatus(db, last.id) = last.status

\* C8: a create whose gateway call fails (validation, a non-success answer,
\* no answer) fails and leaves the table as it was
C8_FailedCreateStoresNothing ==
  [][(last'.op = "create" /\ last' # last
        /\ (last'.calls = <<>> \/ ~last'.calls[1].ok))
       => (last'.code = 400 /\ db' = db)]_vars

\* a create was refused by the gateway and there is no row for its payment
C8_Witness ==
  /\ last.op = "create" /\ last.code = 400
  /\ Len(last.calls) = 1 /\ ~last.calls[1].ok
  /\ StorageGetPayment(db, PaymentId(last.id)) = NoPayment

\* C9: after a successful create the table holds a Payment with the returned
\* id, status PENDING, the request's amount and order_id, and the gateway's
\* redirect URL as payment_url
C9_CreateStoresPendingPayment ==
  (last.op = "create" /\ last.code = 201)
  => LET stored == StorageGetPayment(db, last.ret.id)
         redirect_url == MetaGet(SnapResult(last.rows[1].snap), "redirect_url")
     IN /\ stored # NoPayment
        /\ stored.status = PENDING
        /\ stored.amount = last.rows[1].amount
        /\ stored.order_id = last.id
        /\ stored.payment_url = redirect_url

\* a create for 100 succeeded with a redirect URL, and the row carries it
C9_Witness ==
  /\ last.op = "create" /\ last.code = 201 /\ last.rows[1].amount = 100
  /\ last.rows[1].snap = "201"
  /\ StorageGetPayment(db, last.ret.id).payment_url = "https://snap/redirect"
  /\ StorageGetPayment(db, last.ret.id).status = PENDING

\* C10: a successful create for an order that already has a stored payment
\* adds a row, so that the order has at least two
C10_RecreateAddsRow ==
  (last.op = "create" /\ last.code = 201 /\ last.before # NoPayment)
  => Cardinality({r \in db : r.order_id = last.id}) >= 2

\* C11: over create, get, force-check, cancel, refund, webhook, notification
\* and manual override, the amount of a stored Payment stays what it was
C11_AmountNeverChanges ==
  (last.op \in {"create", "get", "force_check", "cancel", "refund", "webhook",
                "notification", "override"}
     /\ last.before # NoPayment)
  => /\ StorageGetPayment(db, last.before.id) # NoPayment
     /\ StorageGetPayment(db, last.before.id).amount = last.before.amount

\* C12: a create leaves every field of the Payment already stored for its
\* order as it was
C12_CreateLeavesStoredPayment ==
  (last.op = "create" /\ last.before # NoPayment)
  => StorageGetPayment(db, last.before.id) = last.before

\* the messages with which cancel ("cancel") and refund ("refund") reject a
\* payment in the given status, over the renderings of the status
InvalidStateMessages(operation, status) ==
  { "ValueError: Cannot " \o operation \o " payment with status: " \o FormatStatus(status, fmt) :
      fmt \in EnumFormats }

\* C13: a cancel of a stored payment that is neither PENDING nor PROCESSING
\* is answered 400 with the invalid-state message naming its status, makes no
\* gateway call and leaves the row as it was; a cancel of a PENDING or
\* PROCESSING payment is not answered with that message and reaches the gateway
C13_CancelRejectedOutsidePendingProcessing ==
  (last.op = "cancel" /\ last.before # NoPayment)
  => IF last.before.status \notin {PENDING, PROCESSING}
       THEN /\ last.code = 400
            /\ last.err \in InvalidStateMessages("cancel", last.before.status)
            /\ last.ret = NoPayment
            /\ last.calls = <<>>
            /\ StorageGetPayment(db, last.id) = last.before
       ELSE /\ \A status \in PaymentStatus : last.err \notin InvalidStateMessages("cancel", status)
            /\ Len(last.calls) = 1
            /\ last.calls[1].endpoint = "cancel"

C13_Witness ==
  /\ last.op = "cancel"
  /\ last.before # NoPayment
  /\ last.before.status = SUCCESS
  /\ last.code = 400
  /\ last.err = "ValueError: Cannot cancel payment with status: PaymentStatus.SUCCESS"
  /\ StorageGetPayment(db, last.id) = last.before

\* C14: a cancel that succeeds has made exactly one gateway call, the cancel
\* of the payment's order_id, and leaves the row as it was except for status
\* CANCELED and updated_at, whatever the gateway's response body holds; a
\* cancel whose gateway call failed has written nothing
C14_CancelCallsGatewayThenStoresCanceled ==
  (last.op = "cancel" /\ last.before # NoPayment /\ Len(last.calls) > 0)
  => /\ last.calls = <<GatewayCall("cancel", last.before.order_id, last.code = 200, NoTxn)>>
     /\ last.code = 200
          => /\ [StorageGetPayment(db, last.id) EXCEPT !.updated_at = 0]
                  = [last.before EXCEPT !.status = CANCELED, !.updated_at = 0]
             /\ StorageGetPayment(db, last.id).updated_at \in last.before.updated_at..now
             /\ last.ret = StorageGetPayment(db, last.id)
     /\ last.code # 200 => StorageGetPayment(db, last.id) = last.before

C14_Witness ==
  /\ last.op = "cancel"
  /\ last.code = 200
  /\ last.rows[1].transaction_status = "settlement"
  /\ last.before.status = PENDING
  /\ StorageGetPayment(db, last.id).status = CANCELED
  /\ StorageGetPayment(db, last.id).amount # Float(last.rows[1].gross_amount)
  /\ StorageGetPayment(db, last.id).updated_at > last.before.updated_at

\* C15: a refund of a stored payment that is not SUCCESS is answered 400 with
\* the invalid-state message naming its status by value ("pending" for a
\* PENDING payment), makes no gateway call and leaves the row as it was
C15_RefundRejectedOutsideSuccess ==
  (last.op = "refund" /\ last.before # NoPayment /\ last.before.status # SUCCESS)
  => /\ last.code = 400
     /\ last.err = "ValueError: Cannot refund payment with status: " \o last.before.status
     /\ last.calls = <<>>
     /\ StorageGetPayment(db, last.id) = last.before

\* C16: a refund of a SUCCESS payment that succeeds, with or without a
\* partial amount, has posted the refund of the payment's order_id to the
\* gateway and leaves the row REFUNDED with the amount it had
C16_RefundCallsGatewayStoresRefunded ==
  (last.op = "refund" /\ last.code = 200)
  => /\ last.before # NoPayment
     /\ last.before.status = SUCCESS
     /\ Len(last.calls) > 0
     /\ last.calls[Len(last.calls)] = GatewayCall("refund", last.before.order_id, TRUE, NoTxn)
     /\ StorageGetPayment(db, last.id).status = REFUNDED
     /\ StorageGetPayment(db, last.id).amount = last.before.amount
     /\ last.ret = StorageGetPayment(db, last.id)

\* a partial refund (no status call) of less than the payment's amount
C16_Witness ==
  /\ last.op = "refund"
  /\ last.code = 200
  /\ Len(last.calls) = 1
  /\ last.before.status = SUCCESS
  /\ StorageGetPayment(db, last.id).status = REFUNDED
  /\ StorageGetPayment(db, last.id).amount = 200

\* a gateway call of the last request raised
SomeCallFailed == \E i \in 1..Len(last.calls) : ~last.calls[i].ok

\* C17: a cancel or a refund whose gateway call fails is answered with an
\* error and no Payment, and the row keeps its status and its updated_at
C17_GatewayFailureLeavesRecord ==
  (last.op \in {"cancel", "refund"} /\ SomeCallFailed)
  => /\ last.code = 400
     /\ last.err \in {"ValueError: Failed to cancel payment", "ValueError: Failed to refund payment"}
     /\ last.ret = NoPayment
     /\ last.before # NoPayment
     /\ StorageGetPayment(db, last.id) # NoPayment
     /\ StorageGetPayment(db, last.id).status = last.before.status
     /\ StorageGetPayment(db, last.id).updated_at = last.before.updated_at

C17_Witness ==
  /\ last.op = "cancel"
  /\ SomeCallFailed
  /\ last.code = 400
  /\ last.before.status = PENDING
  /\ StorageGetPayment(db, last.id).status = PENDING
  /\ StorageGetPayment(db, last.id).updated_at < now

\* C18: a create whose save fails after the gateway accepted the transaction
\* is answered with an error and no Payment, and has written nothing: the
\* gateway holds the transaction while the table is as it was (no row of the
\* payment where there was none)
C18_FailedSaveSurfacesError ==
  (last.op = "create" /\ ~last.rows[1].dbok)
  => /\ last.calls = <<GatewayCall("snap", last.id, TRUE, NoTxn)>>
     /\ last.code = 400
     /\ last.err # NoError
     /\ last.ret = NoPayment
     /\ StorageGetPayment(db, PaymentId(last.id)) = last.before

C18_Witness ==
  /\ last.op = "create"
  /\ ~last.rows[1].dbok
  /\ last.calls[1].ok
  /\ last.code = 400
  /\ db = {}

\* the request of this step is a notification for the order and with the
\* status of the notification that the previous request applied to a stored
\* payment, through the same entry point
SameNotificationAgain ==
  /\ last.op \in {"webhook", "notification"}
  /\ last.before # NoPayment
  /\ last.status # None
  /\ last'.op = last.op
  /\ last'.id = last.id
  /\ last'.status = last.status

\* C19: a notification applied a second time in a row, at whatever time, to
\* the same stored payment writes nothing (neither status nor updated_at) and
\* is answered like the first, without an error
C19_SecondNotificationWritesNothing ==
  [][SameNotificationAgain
       => (db' = db /\ last'.code = last.code /\ last'.err = last.err
             /\ last.code \in {0, 200})]_vars

\* a webhook found the status of its notification stored already, written
\* at an earlier time
C19_Witness ==
  /\ last.op = "webhook"
  /\ last.code = 200
  /\ last.err = "success"
  /\ last.status = SUCCESS
  /\ last.rows[1].old_status = SUCCESS
  /\ StoredStatus(db, last.rows[1].payment_id) = SUCCESS
  /\ StorageGetPayment(db, last.rows[1].payment_id).updated_at < now

\* the payloads that fail the signature check: a signature_key that is not
\* the digest, or a signed field gone
ForgedPayloads == {p \in Payloads : ~VerifySignature(p)}

\* C20: a webhook handled with verification on whose payload fails the
\* signature check is answered 401 "Invalid signature", carries nothing read
\* from storage, and leaves the table as it was
C20_InvalidSignatureIsUnauthorized ==
  [][\A p \in ForgedPayloads :
       (last'.op = "webhook" /\ Webhook(p, TRUE))
       => /\ last'.code = 401
          /\ last'.err = "Invalid signature"
          /\ last'.status = None
          /\ last'.rows[1].payment_id = None
          /\ last'.rows[1].old_status = None
          /\ db' = db]_vars

\* a forged notification for a stored PENDING payment was turned away
C20_Witness ==
  /\ last.op = "webhook"
  /\ last.code = 401
  /\ last.rows[1].verify
  /\ last.before # NoPayment
  /\ last.before.status = PENDING
  /\ StorageGetPayment(db, last.before.id) = last.before

\* the payloads that lack one of the required fields
MalformedPayloads == {p \in Payloads : MissingFields(p) # {}}

\* C21: a webhook whose payload lacks a required field, handled with
\* verification off or with a signature that verifies, is answered 400
\* "Missing required field" and leaves the table as it was
C21_MissingFieldIsBadRequest ==
  [][\A p \in MalformedPayloads, v \in BOOLEAN :
       (last'.op = "webhook" /\ (v => VerifySignature(p)) /\ Webhook(p, v))
       => /\ last'.code = 400
          /\ last'.err = "Missing required field"
          /\ last'.rows[1].payment_id = None
          /\ db' = db]_vars

\* C21 as stated: a webhook whose payload lacks a required field is answered
\* 400 with verification on as well as off, and leaves the table as it was
C21_MissingFieldWhateverSignature ==
  [][\A p \in MalformedPayloads, v \in BOOLEAN :
       (last'.op = "webhook" /\ Webhook(p, v))
       => (last'.code = 400 /\ db' = db)]_vars

\* a verified webhook for a stored payment was turned away for a missing field
C21_Witness ==
  /\ last.op = "webhook"
  /\ last.code = 400
  /\ last.err = "Missing required field"
  /\ last.rows[1].verify
  /\ last.before # NoPayment
  /\ StorageGetPayment(db, last.before.id) = last.before

\* the payloads that pass the signature check and carry every required field
AcceptedPayloads == {p \in Payloads : VerifySignature(p) /\ MissingFields(p) = {}}

\* C22: a verified, well-formed webhook for an order with a stored payment is
\* answered 200 "success" with old_status the status stored when it arrived
\* and new_status the status its payload maps to, and leaves that payment
\* stored with new_status
C22_WebhookStoresMappedStatus ==
  [][\A p \in AcceptedPayloads :
       (last'.op = "webhook" /\ Webhook(p, TRUE) /\ ActivePayment(db, p.order_id) # NoPayment)
       => /\ last'.code = 200
          /\ last'.err = "success"
          /\ last'.rows[1].payment_id = ActivePayment(db, p.order_id).id
          /\ last'.rows[1].old_status = ActivePayment(db, p.order_id).status
          /\ last'.status = MapStatusToPaymentStatus(p.transaction_status, Get(p, "fraud_status"))
          /\ StoredStatus(db', last'.rows[1].payment_id) = last'.status]_vars

\* an "expire" notification moved a PENDING payment to EXPIRED
C22_Witness ==
  /\ last.op = "webhook"
  /\ last.code = 200
  /\ last.err = "success"
  /\ last.rows[1].old_status = PENDING
  /\ last.status = EXPIRED
  /\ StoredStatus(db, last.rows[1].payment_id) = EXPIRED

\* C23: a notification for an order without a stored payment raises nothing
\* and writes nothing: the webhook is answered 200 "warning" without payment
\* data, the service returns the normalized notification
C23_UnknownOrderIsWarning ==
  [][/\ \A p \in AcceptedPayloads :
          (last'.op = "webhook" /\ Webhook(p, TRUE) /\ ActivePayment(db, p.order_id) = NoPayment)
          => /\ last'.code = 200
             /\ last'.err = "warning"
             /\ last'.rows[1].payment_id = None
             /\ db' = db
     /\ \A p \in NotificationPayloads :
          (last'.op = "notification" /\ HandleNotification(p)
             /\ ActivePayment(db, Get(p, "order_id")) = NoPayment)
          => /\ last'.err = NoError
             /\ last'.status \in PaymentStatus
             /\ db' = db]_vars

\* a notification for an unknown order arrived while another order's
\* payment was stored
C23_Witness ==
  /\ last.op = "webhook"
  /\ last.code = 200
  /\ last.err = "warning"
  /\ last.id = "ORD-X"
  /\ last.before = NoPayment
  /\ db # {}

\* C24: for every accepted payload, the webhook processor and the service's
\* handle_notification leave the table in the same state
C24_WebhookIsServiceNotification ==
  \A p \in AcceptedPayloads :
    ProcessWebhook(db, p, TRUE).db = ServiceHandleNotification(db, p).db

\* C25: on every gateway answer, get_payment_status and the adapter's
\* handle_notification return the same status
C25_QueryAndNotificationAgree ==
  /\ last.op = "query_status"
       => last.status = AdapterHandleNotification(MappingPayload(last.rows[1])).status
  /\ last.op = "normalize_notification"
       => last.status = AdapterGetPaymentStatus(TRUE, last.rows[1])

\* C26: on every gateway answer that carries a transaction_status,
\* get_payment_status and the webhook handler's map_status_to_payment_status
\* return the same status
C26_PollingAndWebhookAgree ==
  /\ (last.op = "query_status" /\ last.rows[1][1] # None)
       => last.status = MapStatusToPaymentStatus(MappingPayload(last.rows[1]).transaction_status,
                                                 Get(MappingPayload(last.rows[1]), "fraud_status"))
  /\ last.op = "map_status"
       => last.status = AdapterGetPaymentStatus(TRUE, last.rows[1])

\* C27: on a 200 response get_payment_status returns FAILED when fraud_status
\* is "deny", whatever the transaction_status; otherwise SUCCESS for capture
\* and settlement, PENDING for pending, FAILED for deny, CANCELED for cancel,
\* EXPIRED for expire, REFUNDED for refund and partial_refund, and PENDING
\* for a value outside the table and for no value
C27_QueryStatusImplementsTable ==
  last.op = "query_status"
  => LET transaction_status == last.rows[1][1]
         fraud_status == last.rows[1][2]
     IN last.status =
          IF fraud_status = "deny" THEN FAILED
          ELSE IF transaction_status \in {"capture", "settlement"} THEN SUCCESS
          ELSE IF transaction_status = "deny" THEN FAILED
          ELSE IF transaction_status = "cancel" THEN CANCELED
          ELSE IF transaction_status = "expire" THEN EXPIRED
          ELSE IF transaction_status \in {"refund", "partial_refund"} THEN REFUNDED
          ELSE PENDING

\* a settlement that the fraud verdict turns into FAILED
C27_Witness ==
  /\ last.op = "query_status"
  /\ last.rows[1] = <<"settlement", "deny">>
  /\ last.status = FAILED

\* C28: every stored payment has updated_at >= created_at
C28_UpdatedNotBeforeCreated ==
  \A r \in db : r.updated_at >= r.created_at

\* the kind of error a cancel or refund of the service raised
ErrorKind(err) ==
  IF err = "ValueError: not found" THEN "not_found"
  ELSE IF \E operation \in {"cancel", "refund"}, status \in PaymentStatus :
            err \in InvalidStateMessages(operation, status) THEN "invalid_state"
  ELSE IF err \in {"ValueError: Failed to cancel payment", "ValueError: Failed to refund payment"}
    THEN "gateway_failure"
  ELSE "none"

\* payment ids of the stored orders and one that no order has
RequestedPaymentIds == PaymentIds \cup {PaymentId("ORD-X")}

\* C29: on any table, two cancels, or two refunds, that fail with errors of
\* different kinds (not found, invalid state, gateway failure) are answered
\* with different status codes
C29_ErrorKindsHaveDistinctCodes ==
  /\ \A id1, id2 \in RequestedPaymentIds, answer1, answer2 \in CancelAnswers :
       LET r1 == ServiceCancelPayment(db, id1, answer1, "value")
           r2 == ServiceCancelPayment(db, id2, answer2, "value")
       IN (r1.err # NoError /\ r2.err # NoError /\ ErrorKind(r1.err) # ErrorKind(r2.err))
          => ValueErrorStatusCode(r1.err) # ValueErrorStatusCode(r2.err)
  /\ \A id1, id2 \in RequestedPaymentIds, gwok1, gwok2 \in BOOLEAN :
       LET r1 == ServiceRefundPayment(db, id1, "50", TRUE, gwok1, "value")
           r2 == ServiceRefundPayment(db, id2, "50", TRUE, gwok2, "value")
       IN (r1.err # NoError /\ r2.err # NoError /\ ErrorKind(r1.err) # ErrorKind(r2.err))
          => ValueErrorStatusCode(r1.err) # ValueErrorStatusCode(r2.err)

\* C30: after save_payment on an id that has a row, the row's status,
\* amount, payment_url and metadata columns are those of the saved payment
\* (no metadata: no artifacts) and updated_at is refreshed; on an id without
\* a row, a row is inserted with the payment's created_at and updated_at
C30_SaveIsUpsert ==
  last.op = "save"
  => \E r \in RowsById(db, last.id) :
       IF last.before # NoPayment
         THEN /\ r.status = last.ret.status
              /\ r.amount = last.ret.amount
              /\ r.payment_url = last.ret.payment_url
              /\ ColumnsOf(r) = MetadataColumns(last.ret, NoColumns)
              /\ r.created_at = last.before.created_at
              /\ r.updated_at \in last.before.updated_at..now
         ELSE /\ r.status = last.ret.status
              /\ r.created_at = last.ret.created_at
              /\ r.updated_at = last.ret.updated_at

\* what a metadata value holds: None holds what the empty dict holds
MetadataContents(m) == IF m = MetaNone THEN MetaEmpty ELSE m

\* C31: after save_payment(payment), get_payment(payment.id) returns a
\* Payment with the saved payment's id, order_id, amount, status and
\* metadata contents
C31_SaveThenGetRoundTrip ==
  last.op = "save"
  => LET got == StorageGetPayment(db, last.id)
     IN /\ got # NoPayment
        /\ got.id = last.ret.id
        /\ got.order_id = last.ret.order_id
        /\ got.amount = last.ret.amount
        /\ got.status = last.ret.status
        /\ MetadataContents(got.metadata) = MetadataContents(last.ret.metadata)

\* C32: update_payment_status on an id without a row ends with the
\* not-found error and leaves the table as it is; on an id with a row its
\* commit leaves the row with the status it was called with and its
\* updated_at, both written by the one step (so that no state of the table
\* has one without the other)
C32_UpdateStatusIsAtomic ==
  [][\A w \in Workers :
       /\ (workers[w].pc = "update_query" /\ workers'[w] # workers[w]
             /\ ~Exists(db, workers[w].id))
          => /\ workers'[w] = Idle
             /\ last'.err = "ValueError: not found"
             /\ db' = db
       /\ (workers[w].pc = "update_commit" /\ workers'[w] # workers[w])
          => /\ \A r \in RowsById(db', workers[w].id) :
                  r.status = workers[w].status /\ r.updated_at = workers[w].stamp
             /\ \A r \in db' : r.payment_id # workers[w].id => r \in db]_vars

\* C33: whatever another process does between a cancel's status check and
\* its write, the commit that writes CANCELED finds the row PENDING or
\* PROCESSING
C33_CancelWritesOverCancellableOnly ==
  [][\A w \in Workers :
       (workers[w].pc = "update_commit" /\ workers[w].op = "cancel"
          /\ workers'[w] # workers[w])
       => \A r \in RowsById(db, workers[w].id) : r.status \in {PENDING, PROCESSING}]_vars

\* C34: the gateway carries out at most one full refund per order, however
\* many refund requests arrive and however they interleave
C34_AtMostOneGatewayRefund ==
  \A o \in Orders : refunds[o] <= 1

\* the reports in which a transaction ends up at the gateway
TerminalReports ==
  {r \in Reports \cup {<<"expire", None>>} :
     AdapterStatusMapping(r[1], r[2]) \in TerminalStatuses}

\* C35: when a payment is stored PENDING or PROCESSING and the gateway from
\* then on reports the same terminal status for its order, then with GET
\* requests handled fairly the stored status becomes the mapped status of
\* that report and stays so under further gets, force-checks and
\* notifications of that report
C35_StoredStatusConverges ==
  \A o \in Orders : \A r \in TerminalReports :
    []( ( /\ StoredStatus(db, PaymentId(o)) \in {PENDING, PROCESSING}
          /\ [](LatestReports[o] = r) )
        => <>[](StoredStatus(db, PaymentId(o)) = AdapterStatusMapping(r[1], r[2])) )

\* a get found PENDING stored while the gateway reported settlement, and
\* SUCCESS is stored
C35_Witness ==
  /\ last.op = "get" /\ last.before # NoPayment /\ last.before.status = PENDING
  /\ LatestReports[last.before.order_id] = <<"settlement", "accept">>
  /\ StoredStatus(db, last.id) = SUCCESS

\* the handlers that update a status
StatusUpdaters == {"get", "force_check", "cancel", "refund", "webhook", "override"}

\* a row with its status and updated_at blanked
Unstamped(r) == [r EXCEPT !.status = None, !.updated_at = 0]

\* C36: a get, force-check, cancel, refund, webhook or manual override that
\* changes the table changes the status and updated_at of one row and
\* nothing else: the row's other columns (so the Payment's id, order_id,
\* amount, payment method, payment_url, created_at and metadata) and every
\* other row are as before
C36_StatusUpdateIsFrame ==
  [][(last'.op \in StatusUpdaters /\ db' # db)
     => \E r \in db, r2 \in db' :
          /\ db' \ {r2} = db \ {r}
          /\ Unstamped(r2) = Unstamped(r)
          /\ LET before == PaymentRecordToResponse(r)
                 after == PaymentRecordToResponse(r2)
             IN /\ after.id = before.id /\ after.order_id = before.order_id
                /\ after.amount = before.amount
                /\ after.payment_method = before.payment_method
                /\ after.payment_url = before.payment_url
                /\ after.created_at = before.created_at
                /\ after.metadata = before.metadata]_vars

\* a cancel stored CANCELED for one payment while another payment is stored
C36_Witness ==
  /\ last.op = "cancel" /\ last.code = 200
  /\ StoredStatus(db, last.id) = CANCELED
  /\ \E r \in db : r.payment_id # last.id

\* the fields the signature is computed from, and the signature
SignedFields == {"order_id", "status_code", "gross_amount", "signature_key"}

\* the stored status of every payment of a table
StoredStatuses(d) == {<<r.payment_id, r.status>> : r \in d}

\* C37: on any table, two payloads that pass the signature check and agree
\* on order_id, status_code, gross_amount and signature_key leave the same
\* stored statuses when process_webhook handles the one or the other
C37_SignedContentDecidesStatus ==
  \A p1, p2 \in Payloads :
    (VerifySignature(p1) /\ VerifySignature(p2) /\ \A f \in SignedFields : p1[f] = p2[f])
    => StoredStatuses(ProcessWebhook(db, p1, TRUE).db)
         = StoredStatuses(ProcessWebhook(db, p2, TRUE).db)

\* C38: a manual override with a valid status for an id without a row is
\* answered 404 and leaves the table empty of that id; for an id with a row
\* the status asked for is stored after the call and the returned Payment
\* carries it
C38_OverrideNotFoundOrStored ==
  (last.op = "override" /\ last.err \notin {"Status is required", "Invalid status"})
  => IF last.before = NoPayment
       THEN last.code = 404 /\ ~Exists(db, last.id)
       ELSE /\ last.code = 200
            /\ StoredStatus(db, last.id) = last.rows[1].status
            /\ last.ret.status = last.rows[1].status

====
